---- MODULE Spec2Model ----
(***************************************************************************)
(* Model of opencode-dog: channel adapters (GitLab, Slack, Telegram), the  *)
(* webhook routes of the server, the keyword matcher and the analyzer's    *)
(* HandleMessage pipeline with its opencode session round trip.            *)
(*                                                                         *)
(* Text is modelled as a sequence of one-character strings, so that        *)
(* lower-casing, substring search and concatenation are computed.          *)
(***************************************************************************)
EXTENDS Integers, Sequences, FiniteSets, TLC

(***************************************************************************)
(* Bounds                                                                  *)
(***************************************************************************)
\* number of webhook deliveries / direct HandleMessage calls in one behaviour
MaxReq == 1

Reqs == 1..MaxReq

(***************************************************************************)
(* Text helpers (strings.ToLower, strings.Contains)                        *)
(***************************************************************************)
\* the letters strings.ToLower maps, and what it maps them to (texts of the
\* model are ASCII)
UpperCase == <<"A", "B", "C", "D", "E", "F", "G", "H", "I", "J", "K", "L", "M",
               "N", "O", "P", "Q", "R", "S", "T", "U", "V", "W", "X", "Y", "Z">>
LowerCase == <<"a", "b", "c", "d", "e", "f", "g", "h", "i", "j", "k", "l", "m",
               "n", "o", "p", "q", "r", "s", "t", "u", "v", "w", "x", "y", "z">>

LowerChar(c) ==
    IF \E i \in DOMAIN UpperCase : UpperCase[i] = c
    THEN LowerCase[CHOOSE i \in DOMAIN UpperCase : UpperCase[i] = c]
    ELSE c

ToLower(s) == [i \in 1..Len(s) |-> LowerChar(s[i])]

\* strings.Contains(s, sub): sub occurs in s as a contiguous run; the empty
\* string is contained in every string
Contains(s, sub) ==
    \E i \in 0..(Len(s) - Len(sub)) :
        \A j \in 1..Len(sub) : s[i + j] = sub[j]

(***************************************************************************)
(* matchKeyword: first keyword, in list order, whose lower-cased form is a *)
(* substring of the lower-cased text; ("", "") when none.                  *)
(***************************************************************************)
NoMatch == [keyword |-> <<>>, mode |-> ""]

RECURSIVE matchFrom(_, _, _)
matchFrom(lower, keywords, i) ==
    IF i > Len(keywords) THEN NoMatch
    ELSE IF Contains(lower, ToLower(keywords[i].keyword))
         THEN [keyword |-> keywords[i].keyword, mode |-> keywords[i].mode]
         ELSE matchFrom(lower, keywords, i + 1)

\* matchKeyword searching the text as written (not lower-cased)
matchKeyword_TextAsWritten(text, keywords) == matchFrom(text, keywords, 1)

matchKeyword(text, keywords) == matchFrom(ToLower(text), keywords, 1)

(***************************************************************************)
(* Values                                                                  *)
(***************************************************************************)
Nil == <<"nil">>            \* a nil *string (distinct from the empty text)

ProviderGitLab   == "gitlab"
ProviderSlack    == "slack"
ProviderTelegram == "telegram"
ProviderTypes    == {ProviderGitLab, ProviderSlack, ProviderTelegram}

TaskStatusPending    == "pending"
TaskStatusProcessing == "processing"
TaskStatusCompleted  == "completed"
TaskStatusFailed     == "failed"

\* fmt.Errorf("<prefix>: %w", err)
Wrap(prefix, err) == <<prefix>> \o err

(***************************************************************************)
(* Persistence: tasks                                                      *)
(***************************************************************************)
\* INSERT INTO tasks ... : the row gets the column default status 'pending'
\* and no result, error, start or completion time; its id is its position.
NewTask(msg, kw, mode) ==
    [ProjectID        |-> msg.ProjectID,
     ProviderConfigID |-> msg.ProviderCfgID,
     ProviderType     |-> msg.Provider,
     TriggerMode      |-> mode,
     TriggerKeyword   |-> kw,
     MessageBody      |-> msg.Body,
     Author           |-> msg.Author,
     Status           |-> TaskStatusPending,
     Result           |-> Nil,
     ErrorMessage     |-> Nil,
     Started          |-> FALSE,
     Completed        |-> FALSE,
     history          |-> <<TaskStatusPending>>]

\* UPDATE tasks SET status, result, error_message, started_at, completed_at
\* WHERE id = taskID: no condition on the current status; a missing row
\* updates nothing.  history records every status value the row takes.
UpdateTaskStatus(ts, taskID, status, result, errMsg) ==
    IF taskID \notin DOMAIN ts THEN ts
    ELSE [ts EXCEPT ![taskID] =
            [@ EXCEPT !.Status       = status,
                      !.Result       = result,
                      !.ErrorMessage = errMsg,
                      !.Started      = @ \/ status = TaskStatusProcessing,
                      !.Completed    = @ \/ status \in {TaskStatusCompleted,
                                                         TaskStatusFailed},
                      !.history      = Append(@, status)]]

(***************************************************************************)
(* Analysis session client                                                 *)
(***************************************************************************)
NoError == <<>>

\* the text-typed parts of a response, concatenated in response order
RECURSIVE ConcatText(_)
ConcatText(parts) ==
    IF parts = <<>> THEN <<>>
    ELSE (IF Head(parts).type = "text" THEN Head(parts).text ELSE <<>>)
         \o ConcatText(Tail(parts))

\* SendMessage that takes every 2xx status for success
SendMessage_AnySuccessStatus(h) ==
    IF ~h.transport THEN [text |-> <<>>, err |-> <<"http request failed">>]
    ELSE IF h.status \notin {200, 201} THEN [text |-> <<>>, err |-> <<"send message failed">>]
    ELSE IF ~h.decodes THEN [text |-> <<>>, err |-> <<"decode response">>]
    ELSE IF h.error THEN [text |-> <<>>, err |-> <<"opencode error">>]
    ELSE IF ConcatText(h.parts) = <<>>
         THEN [text |-> <<>>, err |-> <<"opencode returned empty response">>]
         ELSE [text |-> ConcatText(h.parts), err |-> NoError]

\* OpencodeClient.SendMessage on an HTTP exchange
\*   h.transport : TRUE when httpClient.Do returned a response
\*   h.status    : HTTP status
\*   h.decodes   : the body is JSON of the MessageResponse shape
\*   h.error     : info.error present
\*   h.parts     : the response's parts
SendMessage(h) ==
    IF ~h.transport THEN [text |-> <<>>, err |-> <<"http request failed">>]
    ELSE IF h.status # 200 THEN [text |-> <<>>, err |-> <<"send message failed">>]
    ELSE IF ~h.decodes THEN [text |-> <<>>, err |-> <<"decode response">>]
    ELSE IF h.error THEN [text |-> <<>>, err |-> <<"opencode error">>]
    ELSE IF ConcatText(h.parts) = <<>>
         THEN [text |-> <<>>, err |-> <<"opencode returned empty response">>]
         ELSE [text |-> ConcatText(h.parts), err |-> NoError]

\* OpencodeClient.CreateSession: the session is returned only for 200/201
\* with a decodable body
CreateSessionOK(h) == h.transport /\ h.status \in {200, 201} /\ h.decodes

\* OpencodeClient.DeleteSession: nil only for 200/204
DeleteSessionOK(h) == h.transport /\ h.status \in {200, 204}

(***************************************************************************)
(* Channel adapters: BuildHandler(providerCfgID, secret, cfg, onMessage).  *)
(* A handler is an operator from the channel's configuration and a request *)
(* to the response it writes and the message it hands to onMessage, if any.*)
(***************************************************************************)
NoMessage == [Provider |-> "", ProviderCfgID |-> "", ProjectID |-> <<>>,
              Body |-> <<>>, Author |-> ""]

\* what a handler did: status and body written, and whether `go onMessage`
\* was reached (with which message)
Answer(status, text) ==
    [status |-> status, text |-> text, json |-> <<>>,
     dispatch |-> FALSE, msg |-> NoMessage]

Dispatch(prov, cfgID, body, author) ==
    [status |-> 200, text |-> "", json |-> <<>>, dispatch |-> TRUE,
     msg |-> [Provider |-> prov, ProviderCfgID |-> cfgID, ProjectID |-> <<>>,
              Body |-> body, Author |-> author]]

\* ---- GitLab ------------------------------------------------------------
EventTypeNote         == "Note Hook"
EventConfidentialNote == "Confidential Note Hook"

\* gogitlab.ParseWebhook for a note event: the concrete event type follows
\* object_attributes.noteable_type; anything else is an error
ParseWebhook(payload) ==
    IF payload.kind # "note" THEN "error"
    ELSE CASE payload.noteable = "Issue"        -> "IssueCommentEvent"
           [] payload.noteable = "MergeRequest" -> "MergeCommentEvent"
           [] payload.noteable = "Commit"       -> "CommitCommentEvent"
           [] payload.noteable = "Snippet"      -> "SnippetCommentEvent"
           [] OTHER                             -> "error"

\* GitLabHandler without the ObjectAttributes.System filter
GitLabHandler_NoSystemFilter(cfg, rq) ==
    IF rq.method # "POST" THEN Answer(405, "method not allowed")
    ELSE IF rq.token # cfg.secret THEN Answer(403, "forbidden")
    ELSE IF rq.event \notin {EventTypeNote, EventConfidentialNote} THEN Answer(200, "")
    ELSE IF rq.payload.kind = "empty" THEN Answer(400, "bad request")
    ELSE IF ParseWebhook(rq.payload) = "error" THEN Answer(422, "unprocessable")
    ELSE IF ParseWebhook(rq.payload) # "IssueCommentEvent" THEN Answer(200, "")
    ELSE Dispatch(ProviderGitLab, cfg.id, rq.payload.note, rq.payload.author)

\* GitLabHandler answering 400 to every payload ParseWebhook refuses
GitLabHandler_ParseError400(cfg, rq) ==
    IF rq.method # "POST" THEN Answer(405, "method not allowed")
    ELSE IF rq.token # cfg.secret THEN Answer(403, "forbidden")
    ELSE IF rq.event \notin {EventTypeNote, EventConfidentialNote} THEN Answer(200, "")
    ELSE IF rq.payload.kind = "empty" THEN Answer(400, "bad request")
    ELSE IF ParseWebhook(rq.payload) = "error" THEN Answer(400, "bad request")
    ELSE IF ParseWebhook(rq.payload) # "IssueCommentEvent" \/ rq.payload.system
         THEN Answer(200, "")
    ELSE Dispatch(ProviderGitLab, cfg.id, rq.payload.note, rq.payload.author)

GitLabHandler(cfg, rq) ==
    IF rq.method # "POST" THEN Answer(405, "method not allowed")
    ELSE IF rq.token # cfg.secret THEN Answer(403, "forbidden")
    ELSE IF rq.event \notin {EventTypeNote, EventConfidentialNote} THEN Answer(200, "")
    ELSE IF rq.payload.kind = "empty" THEN Answer(400, "bad request")
    ELSE IF ParseWebhook(rq.payload) = "error" THEN Answer(422, "unprocessable")
    ELSE IF ParseWebhook(rq.payload) # "IssueCommentEvent" \/ rq.payload.system
         THEN Answer(200, "")
    ELSE Dispatch(ProviderGitLab, cfg.id, rq.payload.note, rq.payload.author)

\* ---- Slack -------------------------------------------------------------
\* fmt.Sprintf("v0:%s:%s", timestamp, string(body))
BaseString(ts, body) == "v0:" \o ts \o ":" \o body

\* "v0=" + hex(HMAC-SHA256(key, baseString)): the MAC is modelled as ideal,
\* two signatures are equal only if the key and the signed string are
SlackSign(key, ts, body) == [key |-> key, base |-> BaseString(ts, body)]

\* an absent X-Slack-Signature header
NoSig == [key |-> "", base |-> ""]

\* verifySlackSignature that only looks for the two headers
verifySlackSignature_HeadersOnly(rq, body, signingSecret) ==
    IF rq.ts = "" \/ rq.sig = NoSig THEN FALSE
    ELSE TRUE

\* verifySlackSignature without the check for empty headers
verifySlackSignature_NoHeaderCheck(rq, body, signingSecret) ==
    rq.sig = SlackSign(signingSecret, rq.ts, body)

verifySlackSignature(rq, body, signingSecret) ==
    IF rq.ts = "" \/ rq.sig = NoSig THEN FALSE
    ELSE rq.sig = SlackSign(signingSecret, rq.ts, body)

\* json.Unmarshal(body, &evt) succeeds
SlackDecodes(payload) == payload.kind = "json"

\* SlackHandler without the url_verification branch
SlackHandler_NoChallenge(cfg, rq) ==
    IF rq.method # "POST" THEN Answer(405, "method not allowed")
    ELSE IF rq.payload.kind = "unreadable" THEN Answer(400, "bad request")
    ELSE IF cfg.signing_secret # ""
            /\ ~verifySlackSignature(rq, rq.payload.raw, cfg.signing_secret)
         THEN Answer(403, "forbidden")
    ELSE IF ~SlackDecodes(rq.payload) THEN Answer(400, "bad request")
    ELSE IF rq.payload.type # "event_callback" THEN Answer(200, "")
    ELSE IF rq.payload.etype \notin {"message", "app_mention"} THEN Answer(200, "")
    ELSE IF rq.payload.user = "" THEN Answer(200, "")
    ELSE Dispatch(ProviderSlack, cfg.id, rq.payload.text, rq.payload.user)

SlackHandler(cfg, rq) ==
    IF rq.method # "POST" THEN Answer(405, "method not allowed")
    ELSE IF rq.payload.kind = "unreadable" THEN Answer(400, "bad request")
    ELSE IF cfg.signing_secret # ""
            /\ ~verifySlackSignature(rq, rq.payload.raw, cfg.signing_secret)
         THEN Answer(403, "forbidden")
    ELSE IF ~SlackDecodes(rq.payload) THEN Answer(400, "bad request")
    ELSE IF rq.payload.type = "url_verification"
         THEN [Answer(200, "") EXCEPT !.json = <<"challenge", rq.payload.challenge>>]
    ELSE IF rq.payload.type # "event_callback" THEN Answer(200, "")
    ELSE IF rq.payload.etype \notin {"message", "app_mention"} THEN Answer(200, "")
    ELSE IF rq.payload.user = "" THEN Answer(200, "")
    ELSE Dispatch(ProviderSlack, cfg.id, rq.payload.text, rq.payload.user)

\* ---- Telegram ----------------------------------------------------------
\* TelegramHandler whose 403 branch lacks its return
TelegramHandler_NoReturn(cfg, rq) ==
    IF rq.method # "POST" THEN Answer(405, "method not allowed")
    ELSE IF rq.payload.kind = "unreadable" THEN Answer(400, "bad request")
    ELSE IF rq.payload.kind # "json" THEN Answer(400, "bad request")
    ELSE IF ~rq.payload.hasMessage \/ rq.payload.text = <<>>
         THEN Answer(IF cfg.secret # "" /\ rq.token # cfg.secret THEN 403 ELSE 200,
                     IF cfg.secret # "" /\ rq.token # cfg.secret THEN "forbidden" ELSE "")
    ELSE [Dispatch(ProviderTelegram, cfg.id, rq.payload.text, rq.payload.author)
            EXCEPT !.status = IF cfg.secret # "" /\ rq.token # cfg.secret
                              THEN 403 ELSE 200]

\* TelegramHandler comparing the token even when no secret is configured
TelegramHandler_AlwaysVerify(cfg, rq) ==
    IF rq.method # "POST" THEN Answer(405, "method not allowed")
    ELSE IF rq.token # cfg.secret THEN Answer(403, "forbidden")
    ELSE IF rq.payload.kind = "unreadable" THEN Answer(400, "bad request")
    ELSE IF rq.payload.kind # "json" THEN Answer(400, "bad request")
    ELSE IF ~rq.payload.hasMessage \/ rq.payload.text = <<>> THEN Answer(200, "")
    ELSE Dispatch(ProviderTelegram, cfg.id, rq.payload.text, rq.payload.author)

\* TelegramHandler without the filter on a nil message or an empty text
TelegramHandler_NoEmptyFilter(cfg, rq) ==
    IF rq.method # "POST" THEN Answer(405, "method not allowed")
    ELSE IF cfg.secret # "" /\ rq.token # cfg.secret THEN Answer(403, "forbidden")
    ELSE IF rq.payload.kind = "unreadable" THEN Answer(400, "bad request")
    ELSE IF rq.payload.kind # "json" THEN Answer(400, "bad request")
    ELSE Dispatch(ProviderTelegram, cfg.id, rq.payload.text, rq.payload.author)

TelegramHandler(cfg, rq) ==
    IF rq.method # "POST" THEN Answer(405, "method not allowed")
    ELSE IF cfg.secret # "" /\ rq.token # cfg.secret THEN Answer(403, "forbidden")
    ELSE IF rq.payload.kind = "unreadable" THEN Answer(400, "bad request")
    ELSE IF rq.payload.kind # "json" THEN Answer(400, "bad request")
    ELSE IF ~rq.payload.hasMessage \/ rq.payload.text = <<>> THEN Answer(200, "")
    ELSE Dispatch(ProviderTelegram, cfg.id, rq.payload.text, rq.payload.author)

\* the handler the adapter of the channel's type builds
BuildHandler(cfg, rq) ==
    CASE cfg.typ = ProviderGitLab   -> GitLabHandler(cfg, rq)
      [] cfg.typ = ProviderSlack    -> SlackHandler(cfg, rq)
      [] cfg.typ = ProviderTelegram -> TelegramHandler(cfg, rq)

(***************************************************************************)
(* Inputs of the dispatch pipeline                                         *)
(***************************************************************************)
\* largest number of parts in a response of the analysis service
MaxParts == 2

Bodies == {<<"A", "b">>, <<"b">>, <<"a">>}

Parts == {[type |-> "text", text |-> <<"r">>],
          [type |-> "text", text |-> <<>>],
          [type |-> "tool", text |-> <<"x">>]}

PartLists == UNION {[1..n -> Parts] : n \in 0..MaxParts}

CreateExchanges ==
    {[transport |-> FALSE, status |-> 0,   decodes |-> FALSE],
     [transport |-> TRUE,  status |-> 500, decodes |-> FALSE],
     [transport |-> TRUE,  status |-> 200, decodes |-> FALSE],
     [transport |-> TRUE,  status |-> 200, decodes |-> TRUE],
     [transport |-> TRUE,  status |-> 201, decodes |-> TRUE]}

SendExchanges ==
    {[transport |-> FALSE, status |-> 0,   decodes |-> FALSE, error |-> FALSE, parts |-> <<>>],
     [transport |-> TRUE,  status |-> 500, decodes |-> FALSE, error |-> FALSE, parts |-> <<>>],
     [transport |-> TRUE,  status |-> 200, decodes |-> FALSE, error |-> FALSE, parts |-> <<>>]}
    \cup {[transport |-> TRUE, status |-> 200, decodes |-> TRUE, error |-> e, parts |-> ps] :
            e \in BOOLEAN, ps \in PartLists}

DeleteExchanges ==
    {[transport |-> FALSE, status |-> 0],
     [transport |-> TRUE,  status |-> 500],
     [transport |-> TRUE,  status |-> 200],
     [transport |-> TRUE,  status |-> 204]}

\* project ids, as sequences of characters: "project123" (the id of the
\* repository's API tests), "project124", which has the same first eight
\* characters, "project223", and an id of fewer than eight characters
Project123 == <<"p", "r", "o", "j", "e", "c", "t", "1", "2", "3">>
Project124 == <<"p", "r", "o", "j", "e", "c", "t", "1", "2", "4">>
Project223 == <<"p", "r", "o", "j", "e", "c", "t", "2", "2", "3">>
ShortID    == <<"p", "1">>

\* projects rows (their ids) when the process starts
Projects == {Project123, Project223}

\* the ids gen_random_uuid() gives the projects POST /api/projects creates,
\* in order
NewProjectIDs == <<Project124>>

\* every id a projects row may have
AllProjects == Projects \cup {NewProjectIDs[i] : i \in DOMAIN NewProjectIDs}

\* "/hook/" + pc.ProviderType + "/" + projectID[:8], for an id of eight
\* characters at least (a shorter one makes the slice expression panic)
DefaultPath(providerType, projectID) == <<"hook", providerType, SubSeq(projectID, 1, 8)>>

\* provider_configs rows: id -> row.  A path is the sequence of its segments.
ConfigRows ==
    [c1 |-> [ProjectID |-> Project123, ProviderType |-> ProviderGitLab,
             WebhookSecret |-> "s1",
             WebhookPath |-> DefaultPath(ProviderGitLab, Project123), Enabled |-> TRUE]]

\* trigger_keywords of a project as GetTriggerKeywords returns them
\* (ORDER BY mode, keyword)
TwoKeywords ==
    <<[keyword |-> <<"a", "B">>, mode |-> "ask"],
      [keyword |-> <<"b">>, mode |-> "do"]>>

\* a project whose keywords include the empty text, which PUT .../keywords
\* stores like any other; it sorts first within its mode
WithEmptyKeyword ==
    <<[keyword |-> <<>>, mode |-> "ask"],
      [keyword |-> <<"b">>, mode |-> "do"]>>

KeywordLists == {<<>>, TwoKeywords, WithEmptyKeyword}

\* no project has a keyword
NoKeywords == [p \in AllProjects |-> <<>>]

\* admin API calls made in one behaviour, POST /api/projects aside (whose
\* number is that of NewProjectIDs)
MaxAPICalls == 1

\* the ids gen_random_uuid() gives the rows the API creates, in order
NewIDs == <<"c4", "c5", "c6">>

\* no admin API call was made: calls counts the calls, created the
\* provider_configs rows and projects the projects rows POST inserted, status
\* is the status of the last response (0: none; a handler that panics writes
\* none)
NoAPICalls == [calls |-> 0, created |-> 0, projects |-> 0, status |-> 0]

\* bodies of POST /api/providers/{project}: a webhook_path of its own, or
\* none (the empty path)
ProviderPosts ==
    [ProjectID : AllProjects \cup {ShortID}, ProviderType : {ProviderGitLab},
     WebhookSecret : {"s1"}, WebhookPath : {<<>>}]
    \cup [ProjectID : {Project123}, ProviderType : {ProviderGitLab},
          WebhookSecret : {"s1"}, WebhookPath : {<<"hook", "gitlab", <<"n", "e", "w">>>>}]

\* the registry the Analyzer is built with (type -> adapter): an adapter for
\* GitLab and for Slack, none for Telegram
Registries ==
    {[t \in {ProviderGitLab, ProviderSlack} |-> [typ |-> t, name |-> "first"]]}

\* the registry server.New builds: NewGitLabProvider, NewSlackProvider and
\* NewTelegramProvider are registered before anything is served
ServerRegistry ==
    [t \in {ProviderGitLab, ProviderSlack, ProviderTelegram} |-> [typ |-> t, name |-> "first"]]

Messages ==
    [Provider      : {ProviderGitLab, ProviderTelegram},
     ProviderCfgID : {"c1", "c9"},
     ProjectID     : {Project123},
     Body          : Bodies,
     Author        : {"alice"}]


(***************************************************************************)
(* Inputs of the webhook handlers                                          *)
(***************************************************************************)
\* channel configurations a handler is built for
HookConfigs ==
    {[id |-> "gl1", typ |-> ProviderGitLab,   secret |-> "s1", signing_secret |-> ""],
     [id |-> "sl1", typ |-> ProviderSlack,    secret |-> "s1", signing_secret |-> "k1"],
     [id |-> "sl0", typ |-> ProviderSlack,    secret |-> "s1", signing_secret |-> ""],
     [id |-> "tg1", typ |-> ProviderTelegram, secret |-> "s1", signing_secret |-> ""],
     [id |-> "tg0", typ |-> ProviderTelegram, secret |-> "",   signing_secret |-> ""]}

Methods == {"POST", "GET"}
Tokens  == {"", "s1", "bad"}
Texts   == {<<>>, <<"A", "b">>}

GitLabPayloads ==
    {[kind |-> "empty",     noteable |-> "", system |-> FALSE, note |-> <<>>, author |-> ""],
     [kind |-> "malformed", noteable |-> "", system |-> FALSE, note |-> <<>>, author |-> ""]}
    \cup [kind : {"note"}, noteable : {"Issue", "MergeRequest", "Epic"},
          system : BOOLEAN, note : Texts, author : {"alice"}]

GitLabRequests ==
    [method : Methods, token : Tokens,
     event : {EventTypeNote, EventConfidentialNote, "Push Hook"},
     payload : GitLabPayloads]

\* raw names the bytes of the body (what the signature is computed over)
SlackPayloads ==
    {[raw |-> "b0", kind |-> "unreadable", type |-> "", challenge |-> "", etype |-> "", user |-> "", text |-> <<>>],
     [raw |-> "b1", kind |-> "malformed",  type |-> "", challenge |-> "", etype |-> "", user |-> "", text |-> <<>>],
     \* "challenge": 123 -- JSON, but not of the slackEvent shape
     [raw |-> "b2", kind |-> "mistyped", type |-> "url_verification", challenge |-> "", etype |-> "", user |-> "", text |-> <<>>],
     [raw |-> "b3", kind |-> "json", type |-> "url_verification", challenge |-> "c1", etype |-> "", user |-> "", text |-> <<>>],
     [raw |-> "b4", kind |-> "json", type |-> "app_rate_limited", challenge |-> "", etype |-> "", user |-> "", text |-> <<>>],
     [raw |-> "b5", kind |-> "json", type |-> "event_callback", challenge |-> "", etype |-> "message", user |-> "U1", text |-> <<"A", "b">>],
     [raw |-> "b6", kind |-> "json", type |-> "event_callback", challenge |-> "", etype |-> "app_mention", user |-> "", text |-> <<"A", "b">>],
     [raw |-> "b7", kind |-> "json", type |-> "event_callback", challenge |-> "", etype |-> "reaction_added", user |-> "U1", text |-> <<>>]}

\* signatures a sender can attach: none, or one computed under some key for
\* some timestamp and some body (this request's or another)
SlackSignatures(payload) ==
    {NoSig} \cup {SlackSign(k, t, b) : k \in {"k1", "k2"}, t \in {"t1", "t2"},
                                        b \in {payload.raw, "b4"}}

SlackRequests ==
    UNION {{[method |-> m, ts |-> t, sig |-> sg, payload |-> pl] :
               m \in Methods, t \in {"", "t1"}, sg \in SlackSignatures(pl)} :
           pl \in SlackPayloads}

TelegramPayloads ==
    {[kind |-> "unreadable", hasMessage |-> FALSE, text |-> <<>>, author |-> ""],
     [kind |-> "malformed",  hasMessage |-> FALSE, text |-> <<>>, author |-> ""],
     [kind |-> "json",       hasMessage |-> FALSE, text |-> <<>>, author |-> ""]}
    \cup [kind : {"json"}, hasMessage : {TRUE}, text : Texts, author : {"alice"}]

TelegramRequests == [method : Methods, token : Tokens, payload : TelegramPayloads]

RequestsFor(cfg) ==
    CASE cfg.typ = ProviderGitLab   -> GitLabRequests
      [] cfg.typ = ProviderSlack    -> SlackRequests
      [] cfg.typ = ProviderTelegram -> TelegramRequests

(***************************************************************************)
(* State                                                                   *)
(***************************************************************************)
VARIABLES
    providers,        \* Registry.providers: channel type -> adapter
    providerConfigs,  \* provider_configs table: id -> row
    triggerKeywords,  \* trigger_keywords: project id -> its rows in query order
    tasks,            \* tasks table: id -> row
    replies,          \* SendReply calls each run made, in order
    sessions,         \* sessions the analysis service created for each run
    unit,             \* the detached unit of each delivery (HandleMessage run)
    req,              \* the HTTP request of each delivery
    resp,             \* the HTTP response written for each delivery
    hpc,              \* position of each delivery's HTTP handler
    input,            \* arguments of a function called on its own
    output,           \* what that call returned
    mu,               \* Registry.mu: the writer holding it, the readers holding it
    gor,              \* goroutines calling the Registry
    registered,       \* history of Register: last adapter per type, all adapters
    webhookDeliveries,\* webhook_deliveries table: the event ids recorded
    projects,         \* projects table: the ids of its rows
    api,              \* admin API calls made so far
    mux,              \* the server's ServeMux: routes registered at startup
    configDir,        \* the files of Analyzer.configDir: name -> content
    wcf               \* each unit's position in writeConfigFiles

vars == <<providers, providerConfigs, triggerKeywords, tasks, replies,
          sessions, unit, req, resp, hpc, input, output, mu, gor, registered,
          webhookDeliveries, projects, api, mux, configDir, wcf>>

storeVars   == <<providerConfigs, triggerKeywords, webhookDeliveries, projects, api>>
handlerVars == <<req, resp, hpc>>
fnVars      == <<input, output>>
registryVars == <<mu, gor, registered>>
serverVars  == <<mux>>
diskVars    == <<configDir, wcf>>

IdleUnit ==
    [pc |-> "idle", msg |-> NoMessage, calls |-> 0, cfgOK |-> FALSE, kwOK |-> FALSE,
     kw |-> <<>>, mode |-> "", taskID |-> 0, sid |-> 0,
     result |-> <<>>, err |-> NoError,
     attempts |-> [create |-> 0, send |-> 0, delete |-> 0], ctxDone |-> FALSE,
     sendErr |-> FALSE, keywords |-> <<>>]

NoReq  == [cfg |-> [id |-> "none", typ |-> "none", secret |-> "", signing_secret |-> ""],
           rq  |-> [method |-> "none"]]
NoResp == [status |-> 0, text |-> "", json |-> <<>>]

\* no function is being called on its own
NoInput  == [fn |-> "none"]
NoOutput == [done |-> FALSE, value |-> FALSE]

\* number of goroutines calling the Registry
MaxGor == 2
Goroutines == 1..MaxGor

\* a zero sync.RWMutex: no writer (0), no readers
FreeMutex == [writer |-> 0, readers |-> {}]

\* Registry calls made in one behaviour, all goroutines together
MaxCalls == 3

\* a nil Provider
NoAdapter == [typ |-> "", name |-> ""]

\* make(map[ProviderType]Provider)
EmptyMap == [t \in {} |-> NoAdapter]

\* providers handed to Register: two instances for each of two channel types
Adapters == [typ : {ProviderGitLab, ProviderSlack}, name : {"first", "second"}]

\* a goroutine that is not inside a Registry call: op, arg and p are the call
\* it made last, ret and ok what Get returned, out the map All returned (or is
\* filling), aliased whether that map is the registry's own
IdleGor == [pc |-> "idle", op |-> "none", arg |-> "", p |-> NoAdapter,
            out |-> EmptyMap, aliased |-> FALSE, ok |-> FALSE, ret |-> NoAdapter,
            n |-> 0]

\* nothing was registered yet
NoneRegistered == [last |-> EmptyMap, ever |-> {}]

\* a ServeMux on which registerWebhookRoutes has not run
NoMux == [started |-> FALSE, routes |-> <<>>, fallback |-> FALSE, panicked |-> FALSE]

\* files := map[string]string{setting key: file name}
Files == [opencode_auth_json   |-> "auth.json",
          opencode_config_json |-> ".opencode.json",
          opencode_ohmy_json   |-> "oh-my-opencode.json"]

FileNames == {Files[k] : k \in DOMAIN Files}

\* the settings rows the files are written from
Settings == [opencode_auth_json   |-> {"token"},
             opencode_config_json |-> {"provider"},
             opencode_ohmy_json   |-> {"agents"}]

\* a unit that has not entered writeConfigFiles: todo are the map entries the
\* range loop has not visited, key the entry being written, existing what
\* injectMCPServers read, merged what it wrote, wroteConfig whether this unit
\* wrote .opencode.json from the settings
IdleWriter == [pc |-> "idle", todo |-> {}, key |-> "", existing |-> {},
               merged |-> {}, wroteConfig |-> FALSE, err |-> ""]

\* the writer of Analyzer.SyncConfig, which main runs before Server.Start;
\* the units of work are the writers 1, 2, ...
SyncWriter == 0
Writers(units) == {SyncWriter} \cup units

\* a file that does not exist, and a configDir without files
NoFile == [exists |-> FALSE, keys |-> {}]
NoFiles == [f \in FileNames |-> NoFile]

\* no unit is in writeConfigFiles
InitNoServer ==
    /\ mux = NoMux
    /\ configDir = NoFiles
    /\ wcf = [r \in Writers(Reqs) |-> IdleWriter]

InitNoCall ==
    /\ input = NoInput
    /\ output = NoOutput

InitNoRegistryCall ==
    /\ mu = FreeMutex
    /\ gor = [g \in Goroutines |-> IdleGor]
    /\ registered = NoneRegistered

InitCommon ==
    /\ providerConfigs = ConfigRows
    /\ \E k \in KeywordLists : triggerKeywords = [p \in AllProjects |-> IF p \in Projects THEN k ELSE <<>>]
    /\ tasks = <<>>
    /\ replies = [r \in Reqs |-> <<>>]
    /\ sessions = [r \in Reqs |-> <<>>]
    /\ unit = [r \in Reqs |-> IdleUnit]
    /\ req = [r \in Reqs |-> NoReq]
    /\ resp = [r \in Reqs |-> NoResp]
    /\ hpc = [r \in Reqs |-> "idle"]
    /\ webhookDeliveries = {}
    /\ projects = Projects
    /\ api = NoAPICalls
    /\ InitNoServer

Init ==
    /\ providers \in Registries
    /\ InitCommon
    /\ InitNoCall
    /\ InitNoRegistryCall

(***************************************************************************)
(* The admin API's writes to the store.  Each is one SQL statement or one  *)
(* transaction; a call that fails (a database error, a violated foreign    *)
(* key, the panic of projectID[:8] on a short id) changes nothing.         *)
(***************************************************************************)
\* ptrStr: the empty id is stored as NULL (a config id is a string, a
\* project id a sequence of characters)
NullID == ""
NullProjectID == <<>>

\* tasks.project_id REFERENCES projects(id), tasks.provider_config_id
\* REFERENCES provider_configs(id): the INSERT fails when a row it names is gone
ForeignKeysHold(msg) ==
    /\ msg.ProjectID = NullProjectID \/ msg.ProjectID \in projects
    /\ msg.ProviderCfgID = NullID \/ msg.ProviderCfgID \in DOMAIN providerConfigs

\* ON DELETE SET NULL of tasks.project_id and tasks.provider_config_id
SetNull(ts, ps, cs) ==
    [i \in DOMAIN ts |->
        [ts[i] EXCEPT !.ProjectID = IF @ \in ps THEN NullProjectID ELSE @,
                      !.ProviderConfigID = IF @ \in cs THEN NullID ELSE @]]

apiOther == <<fnVars, registryVars, serverVars, diskVars, providers, webhookDeliveries,
              replies, sessions, unit, handlerVars>>

\* POST /api/projects: INSERT INTO projects ... RETURNING id.  The projects
\* created in one behaviour are as many as NewProjectIDs has ids.
CreateProject ==
    /\ api.projects < Len(NewProjectIDs)
    /\ \E ok \in BOOLEAN :
         IF ok
         THEN /\ projects' = projects \cup {NewProjectIDs[api.projects + 1]}
              /\ api' = [api EXCEPT !.projects = @ + 1, !.status = 201]
         ELSE /\ projects' = projects
              /\ api' = [api EXCEPT !.status = 500]
    /\ UNCHANGED <<apiOther, providerConfigs, triggerKeywords, tasks>>

\* POST /api/providers/{project}: pc.Enabled = true; an empty webhook_path
\* becomes the default path, whose projectID[:8] panics on a short id (net/http
\* recovers, nothing is written); INSERT INTO provider_configs, which requires
\* the project to exist and does not require the path to be new
CreateProviderConfig ==
    /\ api.calls < MaxAPICalls
    /\ api.created < Len(NewIDs)
    /\ \E pc \in ProviderPosts :
         IF pc.WebhookPath = <<>> /\ Len(pc.ProjectID) < 8
         THEN /\ providerConfigs' = providerConfigs
              /\ api' = [api EXCEPT !.calls = @ + 1, !.status = 0]
         ELSE LET id == NewIDs[api.created + 1]
                  row == [ProjectID     |-> pc.ProjectID,
                          ProviderType  |-> pc.ProviderType,
                          WebhookSecret |-> pc.WebhookSecret,
                          WebhookPath   |-> IF pc.WebhookPath = <<>>
                                            THEN DefaultPath(pc.ProviderType, pc.ProjectID)
                                            ELSE pc.WebhookPath,
                          Enabled       |-> TRUE]
              IN IF pc.ProjectID \in projects
                 THEN /\ providerConfigs' =
                            [c \in DOMAIN providerConfigs \cup {id} |->
                                IF c = id THEN row ELSE providerConfigs[c]]
                      /\ api' = [api EXCEPT !.calls = @ + 1, !.created = @ + 1,
                                            !.status = 201]
                 ELSE /\ providerConfigs' = providerConfigs
                      /\ api' = [api EXCEPT !.calls = @ + 1, !.status = 500]
    /\ UNCHANGED <<apiOther, triggerKeywords, projects, tasks>>

\* DELETE /api/providers/{project}/{id}: DELETE FROM provider_configs WHERE
\* id=$1; the tasks of the row keep their place with a NULL config id
DeleteProviderConfig ==
    /\ api.calls < MaxAPICalls
    /\ \E id \in DOMAIN providerConfigs :
         /\ providerConfigs' = [c \in DOMAIN providerConfigs \ {id} |-> providerConfigs[c]]
         /\ tasks' = SetNull(tasks, {}, {id})
    /\ api' = [api EXCEPT !.calls = @ + 1, !.status = 204]
    /\ UNCHANGED <<apiOther, triggerKeywords, projects>>

\* DELETE /api/projects/{id}: DELETE FROM projects WHERE id=$1, which
\* cascades to the project's provider_configs and trigger_keywords and sets
\* the ids in its tasks to NULL
DeleteProject ==
    /\ api.calls < MaxAPICalls
    /\ \E id \in projects :
         LET gone == {c \in DOMAIN providerConfigs : providerConfigs[c].ProjectID = id}
         IN /\ projects' = projects \ {id}
            /\ providerConfigs' = [c \in DOMAIN providerConfigs \ gone |-> providerConfigs[c]]
            /\ triggerKeywords' = [triggerKeywords EXCEPT ![id] = <<>>]
            /\ tasks' = SetNull(tasks, {id}, gone)
    /\ api' = [api EXCEPT !.calls = @ + 1, !.status = 204]
    /\ UNCHANGED apiOther

\* PUT /api/keywords/{project}: in one transaction DELETE the project's
\* trigger_keywords and INSERT the given ones (here given in query order);
\* an INSERT for a project that is gone fails and the transaction rolls back
SetTriggerKeywords ==
    /\ api.calls < MaxAPICalls
    /\ \E projectID \in AllProjects, keywords \in KeywordLists :
         IF keywords # <<>> /\ projectID \notin projects
         THEN /\ triggerKeywords' = triggerKeywords
              /\ api' = [api EXCEPT !.calls = @ + 1, !.status = 500]
         ELSE /\ triggerKeywords' = [triggerKeywords EXCEPT ![projectID] = keywords]
              /\ api' = [api EXCEPT !.calls = @ + 1, !.status = 200]
    /\ UNCHANGED <<apiOther, providerConfigs, projects, tasks>>

\* the admin API, served next to the webhooks
API ==
    \/ CreateProject
    \/ CreateProviderConfig
    \/ DeleteProviderConfig
    \/ DeleteProject
    \/ SetTriggerKeywords

(***************************************************************************)
(* Analyzer.writeConfigFiles, one action per database call and per         *)
(* file-system call.  u is the unit that runs it; the files are those of   *)
(* the one configDir all units share.  A JSON document is modelled as the  *)
(* set of its top-level keys; a file that was opened with O_TRUNC and not  *)
(* yet written holds no bytes, so no keys.                                 *)
(***************************************************************************)
writerOther == <<fnVars, registryVars, serverVars, providers, storeVars, tasks, replies,
                 sessions, unit, handlerVars>>

\* os.MkdirAll(a.configDir, 0o755); err != nil => return err
MkdirAll(u) ==
    /\ wcf[u].pc = "idle"
    /\ \E ok \in BOOLEAN :
         wcf' = [wcf EXCEPT ![u] =
                   IF ok THEN [@ EXCEPT !.pc = "range", !.todo = DOMAIN Files]
                   ELSE [@ EXCEPT !.pc = "returned", !.err = "mkdir"]]
    /\ UNCHANGED <<configDir, writerOther>>

\* for settingKey, filename := range files (in the order the map yields):
\* setting, err := GetSetting(settingKey); err != nil => continue
GetSetting(u) ==
    /\ wcf[u].pc = "range"
    /\ \E k \in wcf[u].todo, ok \in BOOLEAN :
         wcf' = [wcf EXCEPT ![u] =
                   IF ok THEN [@ EXCEPT !.pc = "WriteFile", !.key = k, !.todo = @ \ {k}]
                   ELSE [@ EXCEPT !.todo = @ \ {k}]]
    /\ UNCHANGED <<configDir, writerOther>>

\* os.WriteFile opens the file with O_WRONLY|O_CREATE|O_TRUNC ...
OpenTrunc(u) ==
    /\ wcf[u].pc = "WriteFile"
    /\ \E ok \in BOOLEAN :
         IF ok
         THEN /\ configDir' = [configDir EXCEPT ![Files[wcf[u].key]] =
                                  [exists |-> TRUE, keys |-> {}]]
              /\ wcf' = [wcf EXCEPT ![u] = [@ EXCEPT !.pc = "Write"]]
         ELSE /\ configDir' = configDir
              /\ wcf' = [wcf EXCEPT ![u] = [@ EXCEPT !.pc = "returned", !.err = "write"]]
    /\ UNCHANGED writerOther

\* ... and then writes the content and closes it
Write(u) ==
    /\ wcf[u].pc = "Write"
    /\ configDir' = [configDir EXCEPT ![Files[wcf[u].key]] =
                        [exists |-> TRUE, keys |-> Settings[wcf[u].key]]]
    /\ wcf' = [wcf EXCEPT ![u] =
                 [@ EXCEPT !.pc = "range",
                           !.wroteConfig = @ \/ wcf[u].key = "opencode_config_json"]]
    /\ UNCHANGED writerOther

\* injectMCPServers: servers, err := ListEnabledMCPServers();
\* err != nil || len(servers) == 0 => return nil
ListEnabledMCPServers(u) ==
    /\ wcf[u].pc = "range"
    /\ wcf[u].todo = {}
    /\ \E servers \in {"error", "none", "some"} :
         wcf' = [wcf EXCEPT ![u] =
                   [@ EXCEPT !.pc = IF servers = "some" THEN "ReadFile" ELSE "returned"]]
    /\ UNCHANGED <<configDir, writerOther>>

\* data, err := os.ReadFile(configPath); err == nil => json.Unmarshal(data,
\* &existing), whose error is dropped: a missing or empty file leaves the map
\* empty
ReadFile(u) ==
    /\ wcf[u].pc = "ReadFile"
    /\ wcf' = [wcf EXCEPT ![u] =
                 [@ EXCEPT !.pc = "WriteFileMerged",
                           !.existing = configDir[".opencode.json"].keys]]
    /\ UNCHANGED <<configDir, writerOther>>

\* existing["mcpServers"] = mcpServers; os.WriteFile(configPath, merged)
\* opens the file with O_TRUNC ...
OpenTruncMerged(u) ==
    /\ wcf[u].pc = "WriteFileMerged"
    /\ \E ok \in BOOLEAN :
         IF ok
         THEN /\ configDir' = [configDir EXCEPT ![".opencode.json"] =
                                  [exists |-> TRUE, keys |-> {}]]
              /\ wcf' = [wcf EXCEPT ![u] = [@ EXCEPT !.pc = "WriteMerged"]]
         ELSE /\ configDir' = configDir
              /\ wcf' = [wcf EXCEPT ![u] = [@ EXCEPT !.pc = "returned", !.err = "write"]]
    /\ UNCHANGED writerOther

\* ... and then writes the merged document
WriteMerged(u) ==
    /\ wcf[u].pc = "WriteMerged"
    /\ LET doc == wcf[u].existing \cup {"mcpServers"}
       IN /\ configDir' = [configDir EXCEPT ![".opencode.json"] =
                              [exists |-> TRUE, keys |-> doc]]
          /\ wcf' = [wcf EXCEPT ![u] = [@ EXCEPT !.pc = "returned", !.merged = doc]]
    /\ UNCHANGED writerOther

writeConfigFiles(u) ==
    \/ MkdirAll(u)
    \/ GetSetting(u)
    \/ OpenTrunc(u)
    \/ Write(u)
    \/ ListEnabledMCPServers(u)
    \/ ReadFile(u)
    \/ OpenTruncMerged(u)
    \/ WriteMerged(u)

\* Analyzer.SyncConfig, called by main before the server starts: it runs
\* writeConfigFiles and logs how it ended
SyncConfig ==
    \/ writeConfigFiles(SyncWriter)
    \/ /\ wcf[SyncWriter].pc = "returned"
       /\ wcf' = [wcf EXCEPT ![SyncWriter] = [IdleWriter EXCEPT !.pc = "synced"]]
       /\ UNCHANGED <<configDir, writerOther>>

\* main has passed SyncOpencodeConfig: the server may start
Synced == wcf[SyncWriter].pc = "synced"

(***************************************************************************)
(* Analyzer.HandleMessage, one action per store call, reply or HTTP call.  *)
(* ok is the outcome of the call (FALSE: it returned an error).            *)
(***************************************************************************)
\* one SendReply call: the run that made it, the template it was built
\* from and the values put into the template.  What the call returned is the
\* caller's err (sendErr), which it logs at most and drops.
Reply(r, kind, args) == [unit |-> r, kind |-> kind, args |-> args]

\* HandleMessage(ctx, msg) is entered
Invoke(r) ==
    /\ Synced
    /\ unit[r].pc = "idle"
    /\ hpc[r] = "idle"
    /\ \E m \in Messages :
         unit' = [unit EXCEPT ![r] =
                    [@ EXCEPT !.pc = "GetProviderConfig", !.msg = m, !.calls = @ + 1]]
    /\ UNCHANGED <<fnVars, registryVars, serverVars, diskVars, providers, storeVars, tasks, replies, sessions, handlerVars>>

\* pcfg, err := GetProviderConfig(msg.ProviderCfgID); err != nil => return
GetProviderConfig(r) ==
    /\ unit[r].pc = "GetProviderConfig"
    /\ \E ok \in BOOLEAN :
         LET found == ok /\ unit[r].msg.ProviderCfgID \in DOMAIN providerConfigs
         IN unit' = [unit EXCEPT ![r] =
                [@ EXCEPT !.cfgOK = found,
                          !.pc = IF found THEN "GetTriggerKeywords" ELSE "done"]]
    /\ UNCHANGED <<fnVars, registryVars, serverVars, diskVars, providers, storeVars, tasks, replies, sessions, handlerVars>>

\* SELECT ... FROM trigger_keywords WHERE project_id=$1 ORDER BY mode, keyword
KeywordsOf(projectID) ==
    IF projectID \in DOMAIN triggerKeywords THEN triggerKeywords[projectID] ELSE <<>>

\* GetTriggerKeywords without the `matchedKeyword == ""` return
GetTriggerKeywords_NoEmptyCheck(r) ==
    /\ unit[r].pc = "GetTriggerKeywords"
    /\ \E ok \in BOOLEAN :
         LET keywords == KeywordsOf(unit[r].msg.ProjectID)
             m == matchKeyword(unit[r].msg.Body, keywords)
         IN unit' = [unit EXCEPT ![r] =
                IF ~ok THEN [@ EXCEPT !.pc = "done"]
                ELSE [@ EXCEPT !.kwOK = TRUE, !.keywords = keywords,
                               !.kw = m.keyword, !.mode = m.mode,
                               !.pc = "CreateTask"]]
    /\ UNCHANGED <<fnVars, registryVars, serverVars, diskVars, providers, storeVars, tasks, replies, sessions, handlerVars>>

\* keywords, err := GetTriggerKeywords(msg.ProjectID); err != nil => return
\* matchedKeyword, matchedMode := matchKeyword(msg.Body, keywords)
\* matchedKeyword == "" => return
GetTriggerKeywords(r) ==
    /\ unit[r].pc = "GetTriggerKeywords"
    /\ \E ok \in BOOLEAN :
         LET keywords == KeywordsOf(unit[r].msg.ProjectID)
             m == matchKeyword(unit[r].msg.Body, keywords)
         IN unit' = [unit EXCEPT ![r] =
                IF ~ok THEN [@ EXCEPT !.pc = "done"]
                ELSE IF m.keyword = <<>>
                THEN [@ EXCEPT !.kwOK = TRUE, !.keywords = keywords, !.pc = "done"]
                ELSE [@ EXCEPT !.kwOK = TRUE, !.keywords = keywords,
                               !.kw = m.keyword, !.mode = m.mode,
                               !.pc = "CreateTask"]]
    /\ UNCHANGED <<fnVars, registryVars, serverVars, diskVars, providers, storeVars, tasks, replies, sessions, handlerVars>>

\* the id gen_random_uuid() gives the task unit r inserts: a new id, named
\* here by the unit (a unit inserts one task at most)
NewTaskID(r) == r

\* CreateTask(task); err != nil => return
CreateTask(r) ==
    /\ unit[r].pc = "CreateTask"
    /\ \E ok \in BOOLEAN :
         IF ok /\ ForeignKeysHold(unit[r].msg)
         THEN /\ tasks' = [i \in DOMAIN tasks \cup {NewTaskID(r)} |->
                             IF i = NewTaskID(r)
                             THEN NewTask(unit[r].msg, unit[r].kw, unit[r].mode)
                             ELSE tasks[i]]
              /\ unit' = [unit EXCEPT ![r] =
                            [@ EXCEPT !.taskID = NewTaskID(r), !.pc = "RegistryGet"]]
         ELSE /\ tasks' = tasks
              /\ unit' = [unit EXCEPT ![r] = [@ EXCEPT !.pc = "done"]]
    /\ UNCHANGED <<fnVars, registryVars, serverVars, diskVars, providers, storeVars, replies, sessions, handlerVars>>

\* Registry.Get(t): the adapter registered for t, if any
RegistryGet(t) == t \in DOMAIN providers

\* GetProvider that goes on when no adapter is registered
GetProvider_NoAbort(r) ==
    /\ unit[r].pc = "RegistryGet"
    /\ unit' = [unit EXCEPT ![r] = [@ EXCEPT !.pc = "SendAck"]]
    /\ UNCHANGED <<fnVars, registryVars, serverVars, diskVars, providers, storeVars, tasks, replies, sessions, handlerVars>>

\* p, ok := registry.Get(msg.Provider); !ok => return
GetProvider(r) ==
    /\ unit[r].pc = "RegistryGet"
    /\ unit' = [unit EXCEPT ![r] =
          [@ EXCEPT !.pc = IF RegistryGet(unit[r].msg.Provider) THEN "SendAck" ELSE "done"]]
    /\ UNCHANGED <<fnVars, registryVars, serverVars, diskVars, providers, storeVars, tasks, replies, sessions, handlerVars>>

\* SendAck that returns from HandleMessage when the reply could not be sent
SendAck_AbortOnFailure(r) ==
    /\ unit[r].pc = "SendAck"
    /\ \E ok \in BOOLEAN :
         /\ replies' = [replies EXCEPT ![r] = Append(@,
               Reply(r, "ack", <<unit[r].mode, unit[r].kw, unit[r].msg.Author>>))]
         /\ unit' = [unit EXCEPT ![r] =
               [@ EXCEPT !.pc = IF ok THEN "UpdateProcessing" ELSE "done",
                         !.sendErr = ~ok]]
    /\ UNCHANGED <<fnVars, registryVars, serverVars, diskVars, providers, storeVars, tasks, sessions, handlerVars>>

\* if err := p.SendReply(ackBody); err != nil { log }: the run goes on
SendAck(r) ==
    /\ unit[r].pc = "SendAck"
    /\ replies' = [replies EXCEPT ![r] = Append(@,
          Reply(r, "ack", <<unit[r].mode, unit[r].kw, unit[r].msg.Author>>))]
    /\ \E ok \in BOOLEAN :
         unit' = [unit EXCEPT ![r] = [@ EXCEPT !.pc = "UpdateProcessing", !.sendErr = ~ok]]
    /\ UNCHANGED <<fnVars, registryVars, serverVars, diskVars, providers, storeVars, tasks, sessions, handlerVars>>

\* _ = UpdateTaskStatus(task.ID, processing, nil, nil): the error is dropped
UpdateProcessing(r) ==
    /\ unit[r].pc = "UpdateProcessing"
    /\ \E ok \in BOOLEAN :
         tasks' = IF ok
                  THEN UpdateTaskStatus(tasks, unit[r].taskID, TaskStatusProcessing, Nil, Nil)
                  ELSE tasks
    /\ unit' = [unit EXCEPT ![r] = [@ EXCEPT !.pc = "WriteConfigFiles", !.sendErr = FALSE]]
    /\ UNCHANGED <<fnVars, registryVars, serverVars, diskVars, providers, storeVars, replies, sessions, handlerVars>>

\* analyze: if err := a.writeConfigFiles(ctx); err != nil => "write config: "
\* + err, which ends the analysis before any session.  The unit takes the
\* steps of writeConfigFiles one by one; when the call has returned its
\* locals are gone.
WriteConfigFiles(r) ==
    /\ unit[r].pc = "WriteConfigFiles"
    /\ \/ writeConfigFiles(r)
       \/ /\ wcf[r].pc = "returned"
          /\ unit' = [unit EXCEPT ![r] =
                IF wcf[r].err = "" THEN [@ EXCEPT !.pc = "CreateSession"]
                ELSE [@ EXCEPT !.err = Wrap("write config", <<wcf[r].err>>),
                               !.pc = "UpdateFailed"]]
          /\ wcf' = [wcf EXCEPT ![r] = IdleWriter]
          /\ UNCHANGED <<fnVars, registryVars, serverVars, configDir, providers,
                         storeVars, tasks, replies, sessions, handlerVars>>

\* runOpencodeHTTP: session, err := CreateSession(ctx, title)
\* The service creates the session when it answers 200/201; the client
\* returns it only if the answer also decodes.
CreateSession(r) ==
    /\ unit[r].pc = "CreateSession"
    /\ \E h \in CreateExchanges :
         /\ sessions' = IF h.transport /\ h.status \in {200, 201}
                        THEN [sessions EXCEPT ![r] =
                                Append(@, [deletes |-> 0, returned |-> CreateSessionOK(h),
                                           cleanup |-> <<>>])]
                        ELSE sessions
         /\ unit' = [unit EXCEPT ![r] =
               IF CreateSessionOK(h)
               THEN [@ EXCEPT !.sid = Len(sessions[r]) + 1, !.pc = "SendMessage",
                              !.attempts.create = @ + 1]
               ELSE [@ EXCEPT !.err = Wrap("create session", <<"failed">>),
                              !.pc = "UpdateFailed", !.attempts.create = @ + 1]]
    /\ UNCHANGED <<fnVars, registryVars, serverVars, diskVars, providers, storeVars, tasks, replies, handlerVars>>

\* the caller's ctx is cancelled or runs out while the analysis request is
\* outstanding (the only calls of the round trip that take ctx are
\* CreateSession and SendMessage)
Cancel(r) ==
    /\ unit[r].pc = "SendMessage"
    /\ ~unit[r].ctxDone
    /\ unit' = [unit EXCEPT ![r] = [@ EXCEPT !.ctxDone = TRUE]]
    /\ UNCHANGED <<fnVars, registryVars, serverVars, diskVars, providers, storeVars, tasks, replies, sessions, handlerVars>>

\* SendMessage that is repeated once when it failed
SendMessageCall_Retry(r) ==
    /\ unit[r].pc = "SendMessage"
    /\ \E h \in SendExchanges :
         /\ unit[r].ctxDone => ~h.transport
         /\ LET out == SendMessage(h)
            IN unit' = [unit EXCEPT ![r] =
                  IF out.err = NoError
                  THEN [@ EXCEPT !.result = out.text, !.pc = "DeleteSession",
                                 !.attempts.send = @ + 1]
                  ELSE IF unit[r].attempts.send = 0
                  THEN [@ EXCEPT !.attempts.send = @ + 1]
                  ELSE [@ EXCEPT !.err = Wrap("send message", out.err),
                                 !.pc = "DeleteSession", !.attempts.send = @ + 1]]
    /\ UNCHANGED <<fnVars, registryVars, serverVars, diskVars, providers, storeVars, tasks, replies, sessions, handlerVars>>

\* result, err := SendMessage(ctx, session.ID, prompt); httpClient.Do fails
\* when ctx is done
SendMessageCall(r) ==
    /\ unit[r].pc = "SendMessage"
    /\ \E h \in SendExchanges :
         /\ unit[r].ctxDone => ~h.transport
         /\ LET out == SendMessage(h)
            IN unit' = [unit EXCEPT ![r] =
                  IF out.err = NoError
                  THEN [@ EXCEPT !.result = out.text, !.pc = "DeleteSession",
                                 !.attempts.send = @ + 1]
                  ELSE [@ EXCEPT !.err = Wrap("send message", out.err),
                                 !.pc = "DeleteSession", !.attempts.send = @ + 1]]
    /\ UNCHANGED <<fnVars, registryVars, serverVars, diskVars, providers, storeVars, tasks, replies, sessions, handlerVars>>

\* cleanupCtx, cancel := context.WithTimeout(context.Background(), 10*time.Second)
CleanupCtx == [parent |-> "Background", timeout |-> 10, done |-> FALSE]

\* DeleteSession called after a successful SendMessage only (no defer)
DeleteSession_OnSuccessOnly(r) ==
    /\ unit[r].pc = "DeleteSession"
    /\ \E h \in DeleteExchanges :
         sessions' = IF unit[r].err = NoError
                     THEN [sessions EXCEPT ![r][unit[r].sid] =
                             [@ EXCEPT !.deletes = @ + 1,
                                       !.cleanup = Append(@, [ctx |-> CleanupCtx])]]
                     ELSE sessions
    /\ unit' = [unit EXCEPT ![r] =
          [@ EXCEPT !.pc = IF unit[r].err = NoError THEN "UpdateCompleted"
                           ELSE "UpdateFailed",
                    !.attempts.delete = IF unit[r].err = NoError THEN @ + 1 ELSE @]]
    /\ UNCHANGED <<fnVars, registryVars, serverVars, diskVars, providers, storeVars, tasks, replies, handlerVars>>

\* the cleanup called with the caller's ctx: no request leaves when ctx is done
DeleteSession_CallerContext(r) ==
    /\ unit[r].pc = "DeleteSession"
    /\ \E h \in DeleteExchanges :
         /\ unit[r].ctxDone => ~h.transport
         /\ sessions' = [sessions EXCEPT ![r][unit[r].sid] =
                        [@ EXCEPT !.deletes = @ + 1,
                                  !.cleanup = Append(@,
                                     [ctx |-> [parent |-> "caller", timeout |-> 0,
                                               done |-> unit[r].ctxDone]])]]
    /\ unit' = [unit EXCEPT ![r] =
          [@ EXCEPT !.pc = IF unit[r].err = NoError THEN "UpdateCompleted"
                           ELSE "UpdateFailed",
                    !.attempts.delete = @ + 1]]
    /\ UNCHANGED <<fnVars, registryVars, serverVars, diskVars, providers, storeVars, tasks, replies, handlerVars>>

\* the deferred cleanup of runOpencodeHTTP: DeleteSession(cleanupCtx,
\* session.ID) under its own 10 s deadline; its error is only logged
DeleteSession(r) ==
    /\ unit[r].pc = "DeleteSession"
    /\ \E h \in DeleteExchanges :
         sessions' = [sessions EXCEPT ![r][unit[r].sid] =
                        [@ EXCEPT !.deletes = @ + 1,
                                  !.cleanup = Append(@, [ctx |-> CleanupCtx])]]
    /\ unit' = [unit EXCEPT ![r] =
          [@ EXCEPT !.pc = IF unit[r].err = NoError THEN "UpdateCompleted"
                           ELSE "UpdateFailed",
                    !.attempts.delete = @ + 1]]
    /\ UNCHANGED <<fnVars, registryVars, serverVars, diskVars, providers, storeVars, tasks, replies, handlerVars>>

\* err != nil: _ = UpdateTaskStatus(task.ID, failed, nil, &errMsg)
UpdateFailed(r) ==
    /\ unit[r].pc = "UpdateFailed"
    /\ \E ok \in BOOLEAN :
         tasks' = IF ok
                  THEN UpdateTaskStatus(tasks, unit[r].taskID, TaskStatusFailed,
                                        Nil, unit[r].err)
                  ELSE tasks
    /\ unit' = [unit EXCEPT ![r] = [@ EXCEPT !.pc = "SendError"]]
    /\ UNCHANGED <<fnVars, registryVars, serverVars, diskVars, providers, storeVars, replies, sessions, handlerVars>>

\* _ = p.SendReply(errReply); return
SendError(r) ==
    /\ unit[r].pc = "SendError"
    /\ replies' = [replies EXCEPT ![r] = Append(@, Reply(r, "error", <<unit[r].err>>))]
    /\ \E ok \in BOOLEAN :
         unit' = [unit EXCEPT ![r] = [@ EXCEPT !.pc = "done", !.sendErr = ~ok]]
    /\ UNCHANGED <<fnVars, registryVars, serverVars, diskVars, providers, storeVars, tasks, sessions, handlerVars>>

\* _ = UpdateTaskStatus(task.ID, completed, &result, nil)
UpdateCompleted(r) ==
    /\ unit[r].pc = "UpdateCompleted"
    /\ \E ok \in BOOLEAN :
         tasks' = IF ok
                  THEN UpdateTaskStatus(tasks, unit[r].taskID, TaskStatusCompleted,
                                        unit[r].result, Nil)
                  ELSE tasks
    /\ unit' = [unit EXCEPT ![r] = [@ EXCEPT !.pc = "SendResult"]]
    /\ UNCHANGED <<fnVars, registryVars, serverVars, diskVars, providers, storeVars, replies, sessions, handlerVars>>

\* p.SendReply(replyBody): an error is logged
SendResult(r) ==
    /\ unit[r].pc = "SendResult"
    /\ replies' = [replies EXCEPT ![r] = Append(@,
          Reply(r, "result", <<unit[r].result, unit[r].mode, unit[r].msg.Author>>))]
    /\ \E ok \in BOOLEAN :
         unit' = [unit EXCEPT ![r] = [@ EXCEPT !.pc = "done", !.sendErr = ~ok]]
    /\ UNCHANGED <<fnVars, registryVars, serverVars, diskVars, providers, storeVars, tasks, sessions, handlerVars>>

HandleMessage(r) ==
    \/ GetProviderConfig(r)
    \/ GetTriggerKeywords(r)
    \/ CreateTask(r)
    \/ GetProvider(r)
    \/ SendAck(r)
    \/ UpdateProcessing(r)
    \/ WriteConfigFiles(r)
    \/ CreateSession(r)
    \/ SendMessageCall(r)
    \/ DeleteSession(r)
    \/ UpdateFailed(r)
    \/ SendError(r)
    \/ UpdateCompleted(r)
    \/ SendResult(r)

Next ==
    \/ SyncConfig
    \/ API
    \/ \E r \in Reqs :
          \/ Invoke(r)
          \/ Cancel(r)
          \/ HandleMessage(r)

Spec == Init /\ [][Next]_vars

(***************************************************************************)
(* The adapters' HTTP handlers, with onMessage an arbitrary callback       *)
(***************************************************************************)
\* the handler runs up to (and not including) `go onMessage(...)`: method,
\* authenticity and payload checks, and the response it writes
ServeHTTP(r) ==
    /\ hpc[r] = "idle"
    /\ unit[r].pc = "idle"
    /\ \E cfg \in HookConfigs :
         \E rq \in RequestsFor(cfg) :
            LET a == BuildHandler(cfg, rq)
            IN /\ req' = [req EXCEPT ![r] = [cfg |-> cfg, rq |-> rq]]
               /\ resp' = [resp EXCEPT ![r] =
                              [status |-> a.status, text |-> a.text, json |-> a.json]]
               /\ hpc' = [hpc EXCEPT ![r] = IF a.dispatch THEN "go" ELSE "returned"]
               /\ unit' = [unit EXCEPT ![r] = [@ EXCEPT !.msg = a.msg]]
    /\ UNCHANGED <<fnVars, registryVars, serverVars, diskVars, providers, storeVars, tasks, replies, sessions>>

\* onMessage called in the handler (no `go`): the handler is inside the call
Go_Synchronous(r) ==
    /\ hpc[r] = "go"
    /\ hpc' = [hpc EXCEPT ![r] = "inOnMessage"]
    /\ unit' = [unit EXCEPT ![r] = [@ EXCEPT !.pc = "onMessage", !.calls = @ + 1]]
    /\ UNCHANGED <<fnVars, registryVars, serverVars, diskVars, providers, storeVars, tasks, replies, sessions, req, resp>>

\* go onMessage(context.Background(), msg); the handler returns
Go(r) ==
    /\ hpc[r] = "go"
    /\ hpc' = [hpc EXCEPT ![r] = "returned"]
    /\ unit' = [unit EXCEPT ![r] = [@ EXCEPT !.pc = "onMessage", !.calls = @ + 1]]
    /\ UNCHANGED <<fnVars, registryVars, serverVars, diskVars, providers, storeVars, tasks, replies, sessions, req, resp>>

\* the callback finishes (it need not: no step of the handler waits for it)
OnMessageReturns(r) ==
    /\ unit[r].pc = "onMessage"
    /\ unit' = [unit EXCEPT ![r] = [@ EXCEPT !.pc = "done"]]
    /\ UNCHANGED <<fnVars, registryVars, serverVars, diskVars, providers, storeVars, tasks, replies, sessions, handlerVars>>

InitHooks ==
    /\ providers \in Registries
    /\ InitCommon
    /\ triggerKeywords = NoKeywords
    /\ InitNoCall
    /\ InitNoRegistryCall

NextHooks ==
    \E r \in Reqs :
        \/ ServeHTTP(r)
        \/ Go(r)
        \/ OnMessageReturns(r)

SpecHooks == InitHooks /\ [][NextHooks]_vars

(***************************************************************************)
(* Server.registerWebhookRoutes: the routes registered at startup from the *)
(* enabled channel configs, the /hook/ fallback that looks the config up   *)
(* by path on each request, and the wrapper both put around HandleMessage. *)
(***************************************************************************)
\* provider_configs rows: c1 enabled, c2 disabled, c3 enabled with a
\* provider_type (a free TEXT column) that none of the three adapters has
RouteConfigRows ==
    [c1 |-> ConfigRows["c1"],
     c2 |-> [ProjectID |-> Project223, ProviderType |-> ProviderGitLab,
             WebhookSecret |-> "s1",
             WebhookPath |-> DefaultPath(ProviderGitLab, Project223), Enabled |-> FALSE],
     c3 |-> [ProjectID |-> Project223, ProviderType |-> "discord",
             WebhookSecret |-> "s1",
             WebhookPath |-> DefaultPath("discord", Project223), Enabled |-> TRUE]]

\* paths requests arrive on: those of the rows, those of the rows the API may
\* create, one outside /hook/
RoutePaths ==
    {RouteConfigRows[c].WebhookPath : c \in DOMAIN RouteConfigRows}
    \cup ({pc.WebhookPath : pc \in ProviderPosts} \ {<<>>})
    \cup {<<"other">>}

\* issue comments whose text holds a configured keyword; project_id is the
\* GitLab project the payload names
RoutePayloads ==
    {[kind |-> "note", noteable |-> "Issue", system |-> FALSE, note |-> <<"A", "b">>,
      author |-> "alice", project_id |-> 1],
     [kind |-> "note", noteable |-> "Issue", system |-> FALSE, note |-> <<"b">>,
      author |-> "alice", project_id |-> 2]}

RouteRequests ==
    [method : {"POST"}, token : {"s1", "bad"}, event : {EventTypeNote},
     payload : RoutePayloads]

\* what the closure handed to BuildHandler captured: cfgID, projectID and the
\* adapter's view of the row
Closure(c) ==
    [cfgID |-> c, projectID |-> providerConfigs[c].ProjectID,
     cfg |-> [id |-> c, typ |-> providerConfigs[c].ProviderType,
              secret |-> providerConfigs[c].WebhookSecret, signing_secret |-> ""]]

NoClosure == [cfgID |-> "", projectID |-> <<>>, cfg |-> NoReq.cfg]

\* the rows that hold the path when a request arrives on it
Owners(path) ==
    {[id |-> c, ProjectID |-> providerConfigs[c].ProjectID,
      Enabled |-> providerConfigs[c].Enabled] :
        c \in {d \in DOMAIN providerConfigs : providerConfigs[d].WebhookPath = path}}

\* ListAllProviderConfigs: WHERE enabled=true
ListAllProviderConfigs == {c \in DOMAIN providerConfigs : providerConfigs[c].Enabled}

\* GetProviderConfigByPath: WHERE webhook_path=$1 (no condition on enabled)
GetProviderConfigByPath(path) ==
    {c \in DOMAIN providerConfigs : providerConfigs[c].WebhookPath = path}

\* registerWebhookRoutes(mux), called once when the process starts: a failed
\* listing registers nothing, not even the fallback; a row whose channel type
\* has no adapter is skipped; mux.Handle panics on a path that is registered
\* already, which ends the process before it serves anything
RegisterWebhookRoutes ==
    /\ Synced
    /\ ~mux.started
    /\ ~mux.panicked
    /\ \E ok \in BOOLEAN :
         mux' = IF ~ok THEN [NoMux EXCEPT !.started = TRUE]
                ELSE LET ids == {c \in ListAllProviderConfigs :
                                    RegistryGet(providerConfigs[c].ProviderType)}
                     IN IF \E c, d \in ids : c # d /\ providerConfigs[c].WebhookPath =
                                                        providerConfigs[d].WebhookPath
                        THEN [NoMux EXCEPT !.panicked = TRUE]
                        ELSE [started  |-> TRUE,
                              routes   |-> [p \in {providerConfigs[c].WebhookPath : c \in ids} |->
                                              Closure(CHOOSE c \in ids :
                                                         providerConfigs[c].WebhookPath = p)],
                              fallback |-> TRUE,
                              panicked |-> FALSE]
    /\ UNCHANGED <<fnVars, registryVars, diskVars, providers, storeVars, tasks, replies,
                   sessions, unit, handlerVars>>

\* the handler BuildHandler returned runs up to `go onMessage(...)`
Handle(r, path, rq, route, cl) ==
    LET a == BuildHandler(cl.cfg, rq)
    IN /\ req' = [req EXCEPT ![r] = [cfg |-> cl.cfg, rq |-> rq, path |-> path,
                                      route |-> route, closure |-> cl,
                                      owners |-> Owners(path)]]
       /\ resp' = [resp EXCEPT ![r] =
                      [status |-> a.status, text |-> a.text, json |-> a.json]]
       /\ hpc' = [hpc EXCEPT ![r] = IF a.dispatch THEN "go" ELSE "returned"]
       /\ unit' = [unit EXCEPT ![r] = [@ EXCEPT !.msg = a.msg]]

\* a response written without an adapter's handler being built: http.Error(w,
\* text, status) by the fallback, a page by the frontend
Refuse(r, path, rq, status, text) ==
    /\ req' = [req EXCEPT ![r] = [cfg |-> NoReq.cfg, rq |-> rq, path |-> path,
                                   route |-> "none", closure |-> NoClosure,
                                   owners |-> Owners(path)]]
    /\ resp' = [resp EXCEPT ![r] = [status |-> status, text |-> text, json |-> <<>>]]
    /\ hpc' = [hpc EXCEPT ![r] = "returned"]
    /\ unit' = unit

\* mux.HandleFunc("/hook/", ...): pc, err := GetProviderConfigByPath(path);
\* err != nil => 404; registry.Get fails => 500; else BuildHandler(pc.ID,
\* pc.WebhookSecret, cfgMap, wrapper).ServeHTTP(w, r).  QueryRow scans the
\* first row of a query without ORDER BY: any of the rows that hold the path.
Fallback(r, path, rq) ==
    \E ok \in BOOLEAN :
        LET found == GetProviderConfigByPath(path)
        IN IF ~ok \/ found = {} THEN Refuse(r, path, rq, 404, "not found")
           ELSE \E c \in found :
                   IF ~RegistryGet(providerConfigs[c].ProviderType)
                   THEN Refuse(r, path, rq, 500, "unknown provider")
                   ELSE Handle(r, path, rq, "fallback", Closure(c))

\* webui.RegisterRoutes: mux.Handle("/", &spaHandler{...}).  The request path
\* is no file of the frontend, so the handler serves "/", the index.html of
\* the frontend, whatever the method
spaHandler(r, path, rq) == Refuse(r, path, rq, 200, "index.html")

\* the ServeMux picks the handler: the exact path of a startup route, else
\* the /hook/ subtree, else "/"
Serve(r, path, rq) ==
    /\ mux.started
    /\ hpc[r] = "idle"
    /\ unit[r].pc = "idle"
    /\ IF path \in DOMAIN mux.routes
       THEN Handle(r, path, rq, "startup", mux.routes[path])
       ELSE IF mux.fallback /\ path[1] = "hook"
       THEN Fallback(r, path, rq)
       ELSE spaHandler(r, path, rq)
    /\ UNCHANGED <<fnVars, registryVars, serverVars, diskVars, providers, storeVars, tasks,
                   replies, sessions>>

\* a request arrives
ServeMux(r) == \E path \in RoutePaths, rq \in RouteRequests : Serve(r, path, rq)

\* func(ctx, msg) { msg.ProjectID = projectID; msg.ProviderCfgID = cfgID;
\*                  s.analyzer.HandleMessage(ctx, msg) }
OnMessage(r) ==
    /\ unit[r].pc = "onMessage"
    /\ unit' = [unit EXCEPT ![r] =
          [@ EXCEPT !.msg = [@ EXCEPT !.ProjectID = req[r].closure.projectID,
                                      !.ProviderCfgID = req[r].closure.cfgID],
                    !.pc = "GetProviderConfig"]]
    /\ UNCHANGED <<fnVars, registryVars, serverVars, diskVars, providers, storeVars, tasks,
                   replies, sessions, handlerVars>>

\* the state server.New and the store leave when Start is called
InitServer ==
    /\ providers = ServerRegistry
    /\ providerConfigs = RouteConfigRows
    /\ triggerKeywords = [p \in AllProjects |-> IF p \in Projects THEN TwoKeywords ELSE <<>>]
    /\ webhookDeliveries = {}
    /\ projects = Projects
    /\ api = NoAPICalls
    /\ tasks = <<>>
    /\ mux = NoMux
    /\ configDir = NoFiles
    /\ InitNoRegistryCall

InitRoutes ==
    /\ InitServer
    /\ InitNoCall
    /\ replies = [r \in Reqs |-> <<>>]
    /\ sessions = [r \in Reqs |-> <<>>]
    /\ unit = [r \in Reqs |-> IdleUnit]
    /\ req = [r \in Reqs |-> NoReq]
    /\ resp = [r \in Reqs |-> NoResp]
    /\ hpc = [r \in Reqs |-> "idle"]
    /\ wcf = [r \in Writers(Reqs) |-> IdleWriter]

NextRoutes ==
    \/ SyncConfig
    \/ RegisterWebhookRoutes
    \/ API
    \/ \E r \in Reqs :
          \/ ServeMux(r)
          \/ Go(r)
          \/ OnMessage(r)
          \/ HandleMessage(r)

SpecRoutes == InitRoutes /\ [][NextRoutes]_vars

(***************************************************************************)
(* One webhook delivered several times on the route of an enabled config   *)
(***************************************************************************)
\* number of times the sender delivers the webhook
MaxDeliveries == 2
Deliveries == 1..MaxDeliveries

\* the webhook: an authentic issue comment that holds a keyword, on c1's path
Webhooks ==
    [fn : {"deliver"}, path : {RouteConfigRows["c1"].WebhookPath},
     rq : {rq \in RouteRequests : rq.token = "s1" /\ rq.payload.project_id = 1}]

\* a handler that looks the delivery up in webhook_deliveries, records it, and
\* answers a repeated delivery without dispatching it
Deliver_Deduplicated(r) ==
    /\ input.fn = "deliver"
    /\ IF input.rq \in webhookDeliveries
       THEN /\ mux.started /\ hpc[r] = "idle" /\ unit[r].pc = "idle"
            /\ Refuse(r, input.path, input.rq, 200, "")
            /\ UNCHANGED <<fnVars, registryVars, serverVars, diskVars, providers,
                           storeVars, tasks, replies, sessions>>
       ELSE /\ mux.started /\ hpc[r] = "idle" /\ unit[r].pc = "idle"
            /\ Handle(r, input.path, input.rq, "startup", Closure("c1"))
            /\ webhookDeliveries' = webhookDeliveries \cup {input.rq}
            /\ UNCHANGED <<fnVars, registryVars, serverVars, diskVars, providers,
                           providerConfigs, triggerKeywords, projects, api, tasks,
                           replies, sessions>>

\* the webhook arrives once more (delivery r is the r-th to arrive); nothing
\* on its way reads or writes webhook_deliveries
Deliver(r) ==
    /\ input.fn = "deliver"
    /\ \A q \in Deliveries : q < r => hpc[q] # "idle"
    /\ Serve(r, input.path, input.rq)

InitDeliveries ==
    /\ InitServer
    /\ input \in Webhooks
    /\ output = NoOutput
    /\ replies = [r \in Deliveries |-> <<>>]
    /\ sessions = [r \in Deliveries |-> <<>>]
    /\ unit = [r \in Deliveries |-> IdleUnit]
    /\ req = [r \in Deliveries |-> NoReq]
    /\ resp = [r \in Deliveries |-> NoResp]
    /\ hpc = [r \in Deliveries |-> "idle"]
    /\ wcf = [r \in Writers(Deliveries) |-> IdleWriter]

NextDeliveries ==
    \/ SyncConfig
    \/ RegisterWebhookRoutes
    \/ \E r \in Deliveries :
          \/ Deliver(r)
          \/ Go(r)
          \/ OnMessage(r)
          \/ HandleMessage(r)

SpecDeliveries == InitDeliveries /\ [][NextDeliveries]_vars

(***************************************************************************)
(* Two requests on one path that differ only in their payload              *)
(***************************************************************************)
\* an issue comment whose text holds none of the configured keywords
OtherComment ==
    [kind |-> "note", noteable |-> "Issue", system |-> FALSE, note |-> <<"A">>,
     author |-> "alice", project_id |-> 2]

\* the path, the method and the headers the two requests share (the path of
\* the enabled row c1 or that of the disabled row c2, an authentic note
\* hook), and the payloads they carry in the order they arrive: a comment
\* that holds a keyword and one that holds none
SamePathRequests ==
    [fn : {"post"},
     path : {RouteConfigRows["c1"].WebhookPath, RouteConfigRows["c2"].WebhookPath},
     rq : {rq \in RouteRequests : rq.token = "s1" /\ rq.payload.project_id = 1},
     payloads : {<<p, OtherComment>> : p \in {q \in RoutePayloads : q.project_id = 1}}
                \cup {<<OtherComment, p>> : p \in {q \in RoutePayloads : q.project_id = 1}}]

\* the payload of the r-th request
PayloadOf(r) == input.payloads[((r - 1) % 2) + 1]

\* the r-th request arrives
Arrive(r) ==
    /\ input.fn = "post"
    /\ \A q \in Deliveries : q < r => hpc[q] # "idle"
    /\ Serve(r, input.path, [input.rq EXCEPT !.payload = PayloadOf(r)])

InitPaths ==
    /\ InitServer
    /\ input \in SamePathRequests
    /\ output = NoOutput
    /\ replies = [r \in Deliveries |-> <<>>]
    /\ sessions = [r \in Deliveries |-> <<>>]
    /\ unit = [r \in Deliveries |-> IdleUnit]
    /\ req = [r \in Deliveries |-> NoReq]
    /\ resp = [r \in Deliveries |-> NoResp]
    /\ hpc = [r \in Deliveries |-> "idle"]
    /\ wcf = [r \in Writers(Deliveries) |-> IdleWriter]

\* of the admin API only POST /api/providers/{project} is called here, at
\* any time; the other admin calls are interleaved with a request in
\* SpecRoutes
NextPaths ==
    \/ SyncConfig
    \/ RegisterWebhookRoutes
    \/ CreateProviderConfig
    \/ \E r \in Deliveries :
          \/ Arrive(r)
          \/ Go(r)
          \/ OnMessage(r)
          \/ HandleMessage(r)

SpecPaths == InitPaths /\ [][NextPaths]_vars

(***************************************************************************)
(* Registry: Register, Get and All called by concurrent goroutines, one    *)
(* action per lock operation and per map access.                           *)
(***************************************************************************)
\* m[k] = v on a map
MapSet(m, k, v) == [t \in DOMAIN m \cup {k} |-> IF t = k THEN v ELSE m[t]]

\* delete(m, k)
MapDelete(m, k) == [t \in DOMAIN m \ {k} |-> m[t]]

otherVars == <<fnVars, serverVars, diskVars, storeVars, tasks, replies, sessions, unit,
               handlerVars>>

\* calls made so far by the goroutines of S
RECURSIVE CallsMade(_)
CallsMade(S) ==
    IF S = {} THEN 0
    ELSE LET g == CHOOSE x \in S : TRUE IN gor[g].n + CallsMade(S \ {g})

\* a goroutine calls Register(p), Get(t) or All()
RegistryCall(g) ==
    /\ gor[g].pc \in {"idle", "holding"}
    /\ CallsMade(Goroutines) < MaxCalls
    /\ \/ \E a \in Adapters :
            gor' = [gor EXCEPT ![g] = [IdleGor EXCEPT !.pc = "Lock", !.op = "Register",
                                          !.p = a, !.n = gor[g].n + 1]]
       \/ \E t \in {ProviderGitLab, ProviderTelegram} :
            gor' = [gor EXCEPT ![g] = [IdleGor EXCEPT !.pc = "RLock", !.op = "Get",
                                          !.arg = t, !.n = gor[g].n + 1]]
       \/ gor' = [gor EXCEPT ![g] = [IdleGor EXCEPT !.pc = "RLock", !.op = "All",
                                        !.n = gor[g].n + 1]]
    /\ UNCHANGED <<providers, mu, registered, otherVars>>

\* r.mu.Lock(): waits until no writer and no reader holds the mutex
Lock(g) ==
    /\ gor[g].pc = "Lock"
    /\ mu.writer = 0
    /\ mu.readers = {}
    /\ mu' = [mu EXCEPT !.writer = g]
    /\ gor' = [gor EXCEPT ![g] = [@ EXCEPT !.pc = "write"]]
    /\ UNCHANGED <<providers, registered, otherVars>>

\* Register keeping the adapter already registered for the type
RegisterWrite_KeepFirst(g) ==
    /\ gor[g].pc = "write"
    /\ providers' = IF gor[g].p.typ \in DOMAIN providers THEN providers
                    ELSE MapSet(providers, gor[g].p.typ, gor[g].p)
    /\ registered' = [last |-> MapSet(registered.last, gor[g].p.typ, gor[g].p),
                      ever |-> registered.ever \cup {gor[g].p}]
    /\ gor' = [gor EXCEPT ![g] = [@ EXCEPT !.pc = "Unlock"]]
    /\ UNCHANGED <<mu, otherVars>>

\* r.providers[p.Type()] = p
RegisterWrite(g) ==
    /\ gor[g].pc = "write"
    /\ providers' = MapSet(providers, gor[g].p.typ, gor[g].p)
    /\ registered' = [last |-> MapSet(registered.last, gor[g].p.typ, gor[g].p),
                      ever |-> registered.ever \cup {gor[g].p}]
    /\ gor' = [gor EXCEPT ![g] = [@ EXCEPT !.pc = "Unlock"]]
    /\ UNCHANGED <<mu, otherVars>>

\* defer r.mu.Unlock(); Register returns
Unlock(g) ==
    /\ gor[g].pc = "Unlock"
    /\ mu' = [mu EXCEPT !.writer = 0]
    /\ gor' = [gor EXCEPT ![g] = [@ EXCEPT !.pc = "idle"]]
    /\ UNCHANGED <<providers, registered, otherVars>>

\* RLock that does not wait for a writer
RLock_NoWait(g) ==
    /\ gor[g].pc = "RLock"
    /\ mu' = [mu EXCEPT !.readers = @ \cup {g}]
    /\ gor' = [gor EXCEPT ![g] = [@ EXCEPT !.pc = IF gor[g].op = "Get" THEN "read" ELSE "copy"]]
    /\ UNCHANGED <<providers, registered, otherVars>>

\* r.mu.RLock(): waits until no writer holds the mutex
RLock(g) ==
    /\ gor[g].pc = "RLock"
    /\ mu.writer = 0
    /\ mu' = [mu EXCEPT !.readers = @ \cup {g}]
    /\ gor' = [gor EXCEPT ![g] = [@ EXCEPT !.pc = IF gor[g].op = "Get" THEN "read" ELSE "copy"]]
    /\ UNCHANGED <<providers, registered, otherVars>>

\* p, ok := r.providers[t]
GetRead(g) ==
    /\ gor[g].pc = "read"
    /\ gor' = [gor EXCEPT ![g] =
                 [@ EXCEPT !.pc = "RUnlock",
                           !.ok = gor[g].arg \in DOMAIN providers,
                           !.ret = IF gor[g].arg \in DOMAIN providers
                                   THEN providers[gor[g].arg] ELSE NoAdapter]]
    /\ UNCHANGED <<providers, mu, registered, otherVars>>

\* for k, v := range r.providers { out[k] = v }: one iteration, in any order;
\* the loop ends when every key present has been visited
AllCopy(g) ==
    /\ gor[g].pc = "copy"
    /\ IF DOMAIN providers \subseteq DOMAIN gor[g].out
       THEN gor' = [gor EXCEPT ![g] = [@ EXCEPT !.pc = "RUnlock"]]
       ELSE \E k \in DOMAIN providers \ DOMAIN gor[g].out :
               gor' = [gor EXCEPT ![g] = [@ EXCEPT !.out = MapSet(@, k, providers[k])]]
    /\ UNCHANGED <<providers, mu, registered, otherVars>>

\* All returning r.providers itself
RUnlock_ReturnInternal(g) ==
    /\ gor[g].pc = "RUnlock"
    /\ mu' = [mu EXCEPT !.readers = @ \ {g}]
    /\ gor' = [gor EXCEPT ![g] =
                 [@ EXCEPT !.pc = IF gor[g].op = "All" THEN "holding" ELSE "idle",
                           !.aliased = gor[g].op = "All"]]
    /\ UNCHANGED <<providers, registered, otherVars>>

\* defer r.mu.RUnlock(); Get returns (p, ok), All returns out
RUnlock(g) ==
    /\ gor[g].pc = "RUnlock"
    /\ mu' = [mu EXCEPT !.readers = @ \ {g}]
    /\ gor' = [gor EXCEPT ![g] =
                 [@ EXCEPT !.pc = IF gor[g].op = "All" THEN "holding" ELSE "idle"]]
    /\ UNCHANGED <<providers, registered, otherVars>>

\* the caller of All adds, replaces or deletes an entry of the map it got; the
\* write lands in the registry's map only if the two are the same map
MutateReturned(g) ==
    /\ gor[g].pc = "holding"
    /\ \E m \in {MapSet(gor[g].out, k, [typ |-> k, name |-> "mock"]) :
                    k \in {ProviderGitLab, ProviderTelegram}}
                \cup {MapDelete(gor[g].out, k) : k \in DOMAIN gor[g].out} :
          /\ gor' = [gor EXCEPT ![g] = [@ EXCEPT !.pc = "idle", !.out = m]]
          /\ providers' = IF gor[g].aliased THEN m ELSE providers
    /\ UNCHANGED <<mu, registered, otherVars>>

InitRegistry ==
    /\ providers = EmptyMap
    /\ InitCommon
    /\ triggerKeywords = NoKeywords
    /\ InitNoCall
    /\ InitNoRegistryCall

NextRegistry ==
    \E g \in Goroutines :
        \/ RegistryCall(g)
        \/ Lock(g)
        \/ RegisterWrite(g)
        \/ Unlock(g)
        \/ RLock(g)
        \/ GetRead(g)
        \/ AllCopy(g)
        \/ RUnlock(g)
        \/ MutateReturned(g)

SpecRegistry == InitRegistry /\ [][NextRegistry]_vars

(***************************************************************************)
(* verifySlackSignature called on its own                                  *)
(***************************************************************************)
SigningSecrets == {"k1", "k2"}
Timestamps     == {"", "1", "1:2"}
RawBodies      == {"b", "2:b", "x"}

\* what a signature was computed for by its sender
Triples == [secret : SigningSecrets, ts : Timestamps, body : RawBodies]

\* no X-Slack-Signature header was sent
NoTriple == [secret |-> "", ts |-> "", body |-> ""]

VerifyInputs ==
    [fn : {"verifySlackSignature"}, secret : SigningSecrets, ts : Timestamps,
     body : RawBodies, signedFor : Triples \cup {NoTriple}]

\* the X-Slack-Signature header of the request
SignatureHeader(in) ==
    IF in.signedFor = NoTriple THEN NoSig
    ELSE SlackSign(in.signedFor.secret, in.signedFor.ts, in.signedFor.body)

\* s.verifySlackSignature(r, body, signingSecret)
VerifyCall ==
    /\ input.fn = "verifySlackSignature"
    /\ ~output.done
    /\ output' = [done |-> TRUE,
                  value |-> verifySlackSignature(
                               [ts |-> input.ts, sig |-> SignatureHeader(input)],
                               input.body, input.secret)]
    /\ UNCHANGED <<input, registryVars, serverVars, diskVars, providers, storeVars, tasks, replies,
                   sessions, unit, handlerVars>>

InitVerify ==
    /\ providers \in Registries
    /\ InitCommon
    /\ triggerKeywords = NoKeywords
    /\ InitNoRegistryCall
    /\ input \in VerifyInputs
    /\ output = NoOutput

NextVerify == VerifyCall

SpecVerify == InitVerify /\ [][NextVerify]_vars

(***************************************************************************)
(* matchKeyword called on its own                                          *)
(***************************************************************************)
\* longest text and longest keyword list handed to matchKeyword
MaxTextLen  == 2
MaxKeywords == 2

MatchChars == {"a", "A", "b"}
MatchTexts == UNION {[1..n -> MatchChars] : n \in 0..MaxTextLen}

\* rows of trigger_keywords (the keyword may be the empty string)
KeywordRows ==
    [keyword : {<<>>, <<"a">>, <<"A", "b">>, <<"b">>}, mode : {"ask", "do"}]

MatchInputs ==
    [fn : {"matchKeyword"}, text : MatchTexts,
     keywords : UNION {[1..n -> KeywordRows] : n \in 0..MaxKeywords}]

\* matchedKeyword, matchedMode := matchKeyword(msg.Body, keywords)
MatchCall ==
    /\ input.fn = "matchKeyword"
    /\ ~output.done
    /\ output' = [done |-> TRUE, value |-> matchKeyword(input.text, input.keywords)]
    /\ UNCHANGED <<input, registryVars, serverVars, diskVars, providers, storeVars, tasks, replies,
                   sessions, unit, handlerVars>>

InitMatch ==
    /\ providers \in Registries
    /\ InitCommon
    /\ triggerKeywords = NoKeywords
    /\ InitNoRegistryCall
    /\ input \in MatchInputs
    /\ output = NoOutput

NextMatch == MatchCall

SpecMatch == InitMatch /\ [][NextMatch]_vars

(***************************************************************************)
(* OpencodeClient.SendMessage called on its own                            *)
(***************************************************************************)
\* parts of a response: two texts that differ, an empty text, a non-text part
SendParts == Parts \cup {[type |-> "text", text |-> <<"s">>]}

SendPartLists == UNION {[1..n -> SendParts] : n \in 0..MaxParts}

\* what the service can answer: nothing (transport error), or a status with a
\* body that does not decode or that decodes to info.error and parts
SendResponses ==
    {[transport |-> FALSE, status |-> 0, decodes |-> FALSE, error |-> FALSE, parts |-> <<>>]}
    \cup {[transport |-> TRUE, status |-> st, decodes |-> FALSE, error |-> FALSE,
           parts |-> <<>>] : st \in {200, 201, 500}}
    \cup {[transport |-> TRUE, status |-> st, decodes |-> TRUE, error |-> e, parts |-> ps] :
            st \in {200, 201, 500}, e \in BOOLEAN, ps \in SendPartLists}

SendInputs == [fn : {"SendMessage"}, h : SendResponses]

\* c.SendMessage(ctx, sessionID, prompt)
SendCall ==
    /\ input.fn = "SendMessage"
    /\ ~output.done
    /\ output' = [done |-> TRUE, value |-> SendMessage(input.h)]
    /\ UNCHANGED <<input, registryVars, serverVars, diskVars, providers, storeVars, tasks, replies,
                   sessions, unit, handlerVars>>

InitSend ==
    /\ providers \in Registries
    /\ InitCommon
    /\ triggerKeywords = NoKeywords
    /\ InitNoRegistryCall
    /\ input \in SendInputs
    /\ output = NoOutput

NextSend == SendCall

SpecSend == InitSend /\ [][NextSend]_vars

(***************************************************************************)
(* Analyzer.writeConfigFiles called by concurrent units on the one         *)
(* configDir, up to its return                                             *)
(***************************************************************************)
\* number of units inside analyze at once
MaxUnits == 2
Units == 1..MaxUnits

InitConfig ==
    /\ providers \in Registries
    /\ providerConfigs = ConfigRows
    /\ triggerKeywords = NoKeywords
    /\ webhookDeliveries = {}
    /\ projects = Projects
    /\ api = NoAPICalls
    /\ tasks = <<>>
    /\ replies = [r \in Reqs |-> <<>>]
    /\ sessions = [r \in Reqs |-> <<>>]
    /\ unit = [r \in Reqs |-> IdleUnit]
    /\ req = [r \in Reqs |-> NoReq]
    /\ resp = [r \in Reqs |-> NoResp]
    /\ hpc = [r \in Reqs |-> "idle"]
    /\ InitNoCall
    /\ InitNoRegistryCall
    /\ mux = NoMux
    /\ configDir = NoFiles
    /\ wcf = [u \in Writers(Units) |-> IdleWriter]

\* the units enter analyze once the process serves requests
NextConfig ==
    \/ SyncConfig
    \/ Synced /\ \E u \in Units : writeConfigFiles(u)

SpecConfig == InitConfig /\ [][NextConfig]_vars

(***************************************************************************)
(* Properties                                                              *)
(***************************************************************************)
IsPrefix(s, t) == Len(s) <= Len(t) /\ \A i \in 1..Len(s) : s[i] = t[i]

Kinds(rs) == [i \in 1..Len(rs) |-> rs[i].kind]

\* positions of HandleMessage after runOpencodeHTTP returned a session's result
AfterRoundTrip == {"UpdateCompleted", "UpdateFailed", "SendResult", "SendError", "done"}

\* the run passed the analysis and it returned a text
AnalysisSucceeded(r) ==
    /\ unit[r].pc \in {"UpdateCompleted", "SendResult", "done"}
    /\ unit[r].sid # 0
    /\ unit[r].err = NoError

\* the run passed the analysis and it returned an error
AnalysisFailed(r) ==
    /\ unit[r].pc \in {"UpdateFailed", "SendError", "done"}
    /\ unit[r].taskID # 0
    /\ unit[r].err # NoError

\* C1: the statuses a task takes in the store are, in order, a prefix of
\* pending, processing, completed or of pending, processing, failed, whatever
\* the outcome of the reply sends, the analysis calls and the status updates.
C1_LifecycleIsPrefix ==
    \A i \in DOMAIN tasks :
        \/ IsPrefix(tasks[i].history,
                    <<TaskStatusPending, TaskStatusProcessing, TaskStatusCompleted>>)
        \/ IsPrefix(tasks[i].history,
                    <<TaskStatusPending, TaskStatusProcessing, TaskStatusFailed>>)

\* C2: a run has created a task only if the channel-config lookup and the
\* keyword lookup succeeded and the matcher returned a non-empty keyword; a
\* run for which one of the three does not hold has created no task, sent no
\* reply and opened no session.  Every task belongs to one run.
C2_TaskOnlyOnMatch ==
    /\ Cardinality(DOMAIN tasks) = Cardinality({r \in Reqs : unit[r].taskID # 0})
    /\ \A r \in Reqs :
         LET u == unit[r]
             matched == /\ u.cfgOK
                        /\ u.kwOK
                        /\ u.kw # <<>>
         IN /\ u.taskID # 0 => matched /\ u.taskID \in DOMAIN tasks
                                /\ tasks[u.taskID].TriggerKeyword = u.kw
            /\ ~matched => /\ u.taskID = 0
                           /\ replies[r] = <<>>
                           /\ sessions[r] = <<>>
                           /\ u.sid = 0

\* C2 witness: a run ended after a keyword lookup that matched nothing, and the
\* store holds no task
C2_Witness ==
    \E r \in Reqs :
        /\ unit[r].pc = "done"
        /\ unit[r].cfgOK /\ unit[r].kwOK /\ unit[r].kw = <<>>
        /\ unit[r].keywords # <<>>
        /\ tasks = <<>>

\* C3: for every session a CreateSession call returned, DeleteSession is
\* called exactly once: not before SendMessage has returned, once by the time
\* runOpencodeHTTP has returned, whether SendMessage failed or not, and never
\* a second time; a run holds at most one session.
C3_DeleteOncePerSession ==
    \A r \in Reqs :
        /\ Len(sessions[r]) <= 1
        /\ unit[r].sid # 0 => /\ unit[r].sid \in DOMAIN sessions[r]
                              /\ sessions[r][unit[r].sid].returned
        /\ \A i \in DOMAIN sessions[r] :
             LET s == sessions[r][i]
             IN /\ s.deletes <= 1
                /\ s.returned /\ unit[r].pc \in AfterRoundTrip => s.deletes = 1
                /\ unit[r].pc \in {"SendMessage", "DeleteSession"} => s.deletes = 0

\* C3 witness: SendMessage failed and the session was deleted once
C3_Witness ==
    \E r \in Reqs :
        /\ unit[r].pc = "done"
        /\ unit[r].sid # 0
        /\ unit[r].err # NoError
        /\ sessions[r][unit[r].sid].deletes = 1

\* C4: a finished run whose channel config exists, whose keyword matched,
\* whose adapter is registered and whose analysis succeeded leaves its one
\* task completed, with the response text as result and no error text, and
\* has sent the acknowledgment and then the result reply; a result reply is
\* sent only once the task is completed.
C4_SuccessLeavesCompletedTask ==
    \A r \in Reqs :
        /\ (unit[r].pc = "done" /\ AnalysisSucceeded(r)) =>
              /\ Cardinality(DOMAIN tasks) = Cardinality({q \in Reqs : unit[q].taskID # 0})
              /\ tasks[unit[r].taskID].Status = TaskStatusCompleted
              /\ tasks[unit[r].taskID].Result = unit[r].result
              /\ tasks[unit[r].taskID].ErrorMessage = Nil
              /\ Kinds(replies[r]) = <<"ack", "result">>
              /\ replies[r][1].args[1] = unit[r].mode
              /\ replies[r][2].args[1] = unit[r].result
        /\ (\E i \in DOMAIN replies[r] : replies[r][i].kind = "result") =>
              tasks[unit[r].taskID].Status = TaskStatusCompleted

\* C5: a finished run whose analysis failed leaves its task failed, with the
\* error text recorded and no result text, and has sent the acknowledgment
\* and then exactly one error reply carrying the error text, no result reply.
C5_FailureLeavesFailedTask ==
    \A r \in Reqs :
        (unit[r].pc = "done" /\ AnalysisFailed(r)) =>
            /\ tasks[unit[r].taskID].Status = TaskStatusFailed
            /\ tasks[unit[r].taskID].ErrorMessage = unit[r].err
            /\ tasks[unit[r].taskID].Result = Nil
            /\ Kinds(replies[r]) = <<"ack", "error">>
            /\ replies[r][2].args = <<unit[r].err>>

\* ---- webhook handlers ----------------------------------------------------
\* onMessage was started for the delivery, or the handler is about to start it
Started(r) == hpc[r] = "go" \/ unit[r].calls > 0

Rejections == {403, 400, 405, 422}

IsGitLab(r) == req[r].cfg.typ = ProviderGitLab
IsSlack(r)  == req[r].cfg.typ = ProviderSlack

\* the request carries a timestamp and the signature of v0:{ts}:{raw body}
\* under the channel's signing secret
ValidSignature(r) ==
    /\ req[r].rq.ts # ""
    /\ req[r].rq.sig # NoSig
    /\ req[r].rq.sig = SlackSign(req[r].cfg.signing_secret, req[r].rq.ts,
                                 req[r].rq.payload.raw)

\* C6: on every accepted request, of any of the three adapters, status 200 and
\* an empty body are written before onMessage is started; onMessage runs as a
\* unit of its own, the handler having returned; and once the handler has
\* written the response no step of onMessage (nor its never finishing) changes
\* it.
C6_RespondsBeforeDetachedDispatch ==
    /\ [](\A r \in Reqs : Started(r) =>
              /\ resp[r].status = 200
              /\ resp[r].text = ""
              /\ resp[r].json = <<>>)
    /\ [](\A r \in Reqs : unit[r].pc \in {"onMessage", "done"} => hpc[r] = "returned")
    /\ [][\A r \in Reqs : hpc[r] # "idle" => resp'[r] = resp[r]]_vars

\* C6 witness: the handler has returned 200 while onMessage is still running
C6_Witness ==
    \E r \in Reqs :
        /\ req[r].cfg.typ = ProviderTelegram
        /\ hpc[r] = "returned"
        /\ unit[r].pc = "onMessage"
        /\ resp[r].status = 200

\* C7: a request answered 403, 400, 405 or 422 never invokes onMessage (its
\* handler returns with the callback neither started nor about to be), and a
\* request invokes onMessage at most once.
C7_RejectionNeverDispatches ==
    \A r \in Reqs :
        /\ resp[r].status \in Rejections =>
              /\ unit[r].calls = 0
              /\ unit[r].pc = "idle"
              /\ unit[r].msg = NoMessage
              /\ hpc[r] = "returned"
        /\ unit[r].calls <= 1
        /\ hpc[r] = "returned" /\ unit[r].calls = 1 => resp[r].status = 200

\* C7 witness: a Telegram request with a wrong secret token was answered 403
\* and the handler has returned
C7_Witness ==
    \E r \in Reqs :
        /\ req[r].cfg.typ = ProviderTelegram
        /\ req[r].rq.payload.kind = "json"
        /\ req[r].rq.payload.hasMessage
        /\ req[r].rq.payload.text # <<>>
        /\ resp[r].status = 403
        /\ hpc[r] = "returned"

\* C8: GitLab handler.  A comment payload with system = true never invokes
\* onMessage, whatever the rest of the request is; carried by a POST of a
\* note event with the token equal to the secret it is answered 200 when
\* ParseWebhook accepts its noteable_type and 422 when it does not; a POST
\* with the token equal to the secret carrying an issue-comment payload
\* with system = false invokes onMessage exactly once.
C8_SystemCommentsNotDispatched ==
    \A r \in Reqs :
        IsGitLab(r) =>
            LET rq == req[r].rq
                accepted == /\ rq.method = "POST"
                            /\ rq.token = req[r].cfg.secret
                            /\ rq.event \in {EventTypeNote, EventConfidentialNote}
            IN /\ rq.payload.system => ~Started(r) /\ unit[r].msg = NoMessage
               /\ (rq.payload.system /\ accepted /\ ParseWebhook(rq.payload) # "error")
                     => resp[r].status = 200
               /\ (rq.payload.system /\ accepted /\ ParseWebhook(rq.payload) = "error")
                     => resp[r].status = 422
               /\ (~rq.payload.system /\ accepted
                     /\ ParseWebhook(rq.payload) = "IssueCommentEvent") =>
                     /\ Started(r)
                     /\ unit[r].msg.Body = rq.payload.note
                     /\ hpc[r] = "returned" => unit[r].calls = 1

\* C8 with the answer as first stated: every comment payload with system =
\* true carried by a POST of a note event with the token equal to the secret
\* is answered 200 and does not invoke onMessage, whatever its noteable_type.
C8_EverySystemCommentAnswered200 ==
    \A r \in Reqs :
        (/\ IsGitLab(r)
         /\ req[r].rq.method = "POST"
         /\ req[r].rq.token = req[r].cfg.secret
         /\ req[r].rq.event \in {EventTypeNote, EventConfidentialNote}
         /\ req[r].rq.payload.kind = "note"
         /\ req[r].rq.payload.system) =>
            /\ ~Started(r)
            /\ resp[r].status = 200

\* C8 witness: an authenticated system comment on an issue, with a text, was
\* answered 200 and the handler returned without starting onMessage
C8_Witness ==
    \E r \in Reqs :
        /\ IsGitLab(r)
        /\ req[r].rq.method = "POST"
        /\ req[r].rq.token = req[r].cfg.secret
        /\ req[r].rq.event = EventTypeNote
        /\ req[r].rq.payload.noteable = "Issue"
        /\ req[r].rq.payload.system
        /\ req[r].rq.payload.note # <<>>
        /\ resp[r].status = 200
        /\ hpc[r] = "returned"
        /\ unit[r].calls = 0

\* C9 as stated: every Slack POST whose JSON body decodes with type
\* url_verification is answered 200 with a JSON body made of the challenge
\* only, and never invokes onMessage.
C9_EveryChallengeAnswered ==
    \A r \in Reqs :
        (/\ IsSlack(r)
         /\ req[r].rq.method = "POST"
         /\ req[r].rq.payload.kind = "json"
         /\ req[r].rq.payload.type = "url_verification") =>
            /\ resp[r].status = 200
            /\ resp[r].json = <<"challenge", req[r].rq.payload.challenge>>
            /\ resp[r].text = ""
            /\ ~Started(r)

\* C9: a Slack POST whose JSON body decodes with type url_verification, and
\* that passes the signature check (valid signature, or a channel with an
\* empty signing secret), is answered 200 with a JSON body made of the
\* challenge only; no request with type url_verification invokes onMessage.
C9_VerifiedChallengeAnswered ==
    \A r \in Reqs :
        (IsSlack(r) /\ req[r].rq.payload.type = "url_verification") =>
            /\ ~Started(r)
            /\ unit[r].msg = NoMessage
            /\ (/\ req[r].rq.method = "POST"
                /\ req[r].rq.payload.kind = "json"
                /\ (req[r].cfg.signing_secret = "" \/ ValidSignature(r))) =>
                   /\ resp[r].status = 200
                   /\ resp[r].json = <<"challenge", req[r].rq.payload.challenge>>
                   /\ resp[r].text = ""
            /\ (/\ req[r].rq.method = "POST"
                /\ req[r].cfg.signing_secret # ""
                /\ ~ValidSignature(r)) => resp[r].status = 403

\* C9 witness: a signed url_verification request on a channel with a signing
\* secret got its challenge back
C9_Witness ==
    \E r \in Reqs :
        /\ IsSlack(r)
        /\ req[r].cfg.signing_secret # ""
        /\ req[r].rq.payload.type = "url_verification"
        /\ resp[r].status = 200
        /\ resp[r].json = <<"challenge", "c1">>
        /\ hpc[r] = "returned"

\* C10 as stated: for every Slack channel configuration, onMessage is invoked
\* only for requests with a timestamp and a matching signature, and every
\* POST with a readable body and a missing or non-matching signature is
\* answered 403.
C10_SignatureAlwaysRequired ==
    \A r \in Reqs :
        IsSlack(r) =>
            /\ Started(r) => ValidSignature(r)
            /\ (/\ req[r].rq.method = "POST"
                /\ req[r].rq.payload.kind # "unreadable"
                /\ ~ValidSignature(r)) => resp[r].status = 403

\* C10: for every Slack channel whose signing secret is not empty, onMessage
\* is invoked only for requests with a timestamp and a matching signature,
\* and every POST with a readable body and a missing or non-matching signature
\* is answered 403; on a channel with an empty signing secret no request is
\* answered 403.
C10_SignatureRequiredWhenSecretSet ==
    \A r \in Reqs :
        IsSlack(r) =>
            /\ req[r].cfg.signing_secret # "" =>
                 /\ Started(r) => ValidSignature(r)
                 /\ (/\ req[r].rq.method = "POST"
                     /\ req[r].rq.payload.kind # "unreadable"
                     /\ ~ValidSignature(r)) => resp[r].status = 403
            /\ req[r].cfg.signing_secret = "" => resp[r].status # 403

\* C10 witness: on a channel with a signing secret, a message event with a
\* valid signature was handed to onMessage
C10_Witness ==
    \E r \in Reqs :
        /\ IsSlack(r)
        /\ req[r].cfg.signing_secret # ""
        /\ ValidSignature(r)
        /\ unit[r].calls = 1
        /\ unit[r].msg.Provider = ProviderSlack

\* ---- verifySlackSignature -------------------------------------------------
\* the triple the call checks the signature against
CheckedTriple == [secret |-> input.secret, ts |-> input.ts, body |-> input.body]

\* the number of components in which two triples differ
Differences(a, b) ==
    Cardinality({f \in {"secret", "ts", "body"} : a[f] # b[f]})

\* C11 as stated: with a non-empty signing secret the check accepts exactly
\* when both headers are present and the signature is the one of
\* (secret, timestamp, body), and a signature computed for a triple is
\* rejected for every triple that differs from it in the secret, the timestamp
\* or the body.
C11_RejectsEveryOtherTriple ==
    (input.fn = "verifySlackSignature" /\ output.done) =>
        /\ output.value <=> /\ input.ts # ""
                            /\ input.signedFor # NoTriple
                            /\ SignatureHeader(input) =
                                  SlackSign(input.secret, input.ts, input.body)
        /\ (input.signedFor # NoTriple /\ input.signedFor # CheckedTriple)
              => ~output.value

\* C11: with a non-empty signing secret the check accepts exactly when both
\* headers are present and the signature is the one of (secret, timestamp,
\* body); a signature computed for a triple is rejected for every triple with
\* another secret or another signed string v0:{timestamp}:{body}, hence for
\* every triple that differs from it in one component only.
C11_RejectsOtherSignedString ==
    (input.fn = "verifySlackSignature" /\ output.done) =>
        /\ output.value <=> /\ input.ts # ""
                            /\ input.signedFor # NoTriple
                            /\ SignatureHeader(input) =
                                  SlackSign(input.secret, input.ts, input.body)
        /\ (/\ input.signedFor # NoTriple
            /\ \/ input.signedFor.secret # input.secret
               \/ BaseString(input.signedFor.ts, input.signedFor.body)
                     # BaseString(input.ts, input.body))
              => ~output.value
        /\ (input.signedFor # NoTriple /\ Differences(input.signedFor, CheckedTriple) = 1)
              => ~output.value
        /\ (input.signedFor = CheckedTriple /\ input.ts # "") => output.value

\* C11 witness: a signature computed for another timestamp was rejected
C11_Witness ==
    /\ input.fn = "verifySlackSignature"
    /\ output.done
    /\ ~output.value
    /\ input.ts # ""
    /\ input.signedFor # NoTriple
    /\ input.signedFor.ts # input.ts
    /\ input.signedFor.ts # ""
    /\ input.signedFor.secret = input.secret
    /\ input.signedFor.body = input.body

\* ---- Telegram handler -----------------------------------------------------
IsTelegram(r) == req[r].cfg.typ = ProviderTelegram

\* the request passes the authenticity check of its channel
Authentic(r) ==
    CASE IsGitLab(r)   -> req[r].rq.token = req[r].cfg.secret
      [] IsSlack(r)    -> req[r].cfg.signing_secret = "" \/ ValidSignature(r)
      [] IsTelegram(r) -> req[r].cfg.secret = "" \/ req[r].rq.token = req[r].cfg.secret
      [] OTHER         -> FALSE

\* C12: Telegram handler.  With an empty configured secret no POST is answered
\* 403, whatever its secret-token header; with a non-empty secret a POST whose
\* header is absent or different is answered 403 (and starts no onMessage).
C12_SecretCheckedOnlyWhenSet ==
    \A r \in Reqs :
        (IsTelegram(r) /\ req[r].rq.method = "POST") =>
            /\ req[r].cfg.secret = "" => resp[r].status # 403
            /\ (req[r].cfg.secret # "" /\ req[r].rq.token # req[r].cfg.secret) =>
                  /\ resp[r].status = 403
                  /\ ~Started(r)
            /\ (req[r].cfg.secret # "" /\ req[r].rq.token = req[r].cfg.secret) =>
                  resp[r].status # 403

\* C12 witness: no secret configured, a POST carrying a secret-token header
\* was accepted and its message dispatched
C12_Witness ==
    \E r \in Reqs :
        /\ IsTelegram(r)
        /\ req[r].cfg.secret = ""
        /\ req[r].rq.method = "POST"
        /\ req[r].rq.token # ""
        /\ resp[r].status = 200
        /\ unit[r].calls = 1

\* C13: Telegram handler.  A POST that passes verification and decodes, whose
\* message is null or whose text is empty, is answered 200 and never invokes
\* onMessage; one with a message and a non-empty text invokes onMessage
\* exactly once, with that text.
C13_OnlyTextMessagesForwarded ==
    \A r \in Reqs :
        (/\ IsTelegram(r)
         /\ req[r].rq.method = "POST"
         /\ Authentic(r)
         /\ req[r].rq.payload.kind = "json") =>
            LET pl == req[r].rq.payload
            IN /\ resp[r].status = 200
               /\ (~pl.hasMessage \/ pl.text = <<>>) =>
                     /\ ~Started(r)
                     /\ unit[r].msg = NoMessage
                     /\ hpc[r] = "returned"
               /\ (pl.hasMessage /\ pl.text # <<>>) =>
                     /\ Started(r)
                     /\ unit[r].msg.Body = pl.text
                     /\ unit[r].calls <= 1
                     /\ hpc[r] = "returned" => unit[r].calls = 1

\* C13 witness: an update with a message whose text is empty was answered 200
\* and the handler returned without starting onMessage
C13_Witness ==
    \E r \in Reqs :
        /\ IsTelegram(r)
        /\ req[r].cfg.secret # ""
        /\ req[r].rq.payload.kind = "json"
        /\ req[r].rq.payload.hasMessage
        /\ req[r].rq.payload.text = <<>>
        /\ resp[r].status = 200
        /\ hpc[r] = "returned"
        /\ unit[r].calls = 0

\* ---- malformed bodies -----------------------------------------------------
\* the body of the request is not well-formed JSON
MalformedBody(r) == req[r].rq.payload.kind = "malformed"

\* C14 as stated: for all three adapters a POST that passes the authenticity
\* check and whose body is not well-formed JSON is answered 400.
C14_MalformedJSONIs400 ==
    \A r \in Reqs :
        (/\ req[r].cfg.typ \in ProviderTypes
         /\ req[r].rq.method = "POST"
         /\ Authentic(r)
         /\ MalformedBody(r)) => resp[r].status = 400

\* C14: a POST that passes the authenticity check and whose body is not
\* well-formed JSON is answered 400 by the Slack and the Telegram handler; the
\* GitLab handler answers it 422 when the event header is a note event and 200
\* (body not read) for any other event.  None of them invokes onMessage.
C14_MalformedJSONIs400Or422 ==
    \A r \in Reqs :
        (/\ req[r].cfg.typ \in ProviderTypes
         /\ req[r].rq.method = "POST"
         /\ Authentic(r)
         /\ MalformedBody(r)) =>
            /\ ~Started(r)
            /\ (IsSlack(r) \/ IsTelegram(r)) => resp[r].status = 400
            /\ IsGitLab(r) =>
                 resp[r].status =
                    IF req[r].rq.event \in {EventTypeNote, EventConfidentialNote}
                    THEN 422 ELSE 200

\* C14 witness: an authenticated GitLab note event with a malformed body was
\* answered 422
C14_Witness ==
    \E r \in Reqs :
        /\ IsGitLab(r)
        /\ req[r].rq.method = "POST"
        /\ Authentic(r)
        /\ MalformedBody(r)
        /\ req[r].rq.event = EventTypeNote
        /\ resp[r].status = 422
        /\ hpc[r] = "returned"

\* ---- merge-request comments ----------------------------------------------
\* C19: an authenticated GitLab note event carrying a merge-request comment
\* with system = false invokes onMessage, as one carrying an issue comment
\* does.
C19_MergeRequestCommentsDispatched ==
    \A r \in Reqs :
        (/\ IsGitLab(r)
         /\ req[r].rq.method = "POST"
         /\ Authentic(r)
         /\ req[r].rq.event \in {EventTypeNote, EventConfidentialNote}
         /\ req[r].rq.payload.kind = "note"
         /\ req[r].rq.payload.noteable = "MergeRequest"
         /\ ~req[r].rq.payload.system) => Started(r)

\* ---- unregistered adapter -------------------------------------------------
\* C20: a run that created its task for a message whose channel type has no
\* registered adapter goes from the registry lookup straight to its end: the
\* task has only ever been pending, the run has sent no reply and no session
\* exists for it, in every state from the creation of the task on.
C20_UnregisteredLeavesPending ==
    \A r \in Reqs :
        (unit[r].taskID # 0 /\ unit[r].msg.Provider \notin DOMAIN providers) =>
            /\ unit[r].pc \in {"RegistryGet", "done"}
            /\ tasks[unit[r].taskID].Status = TaskStatusPending
            /\ tasks[unit[r].taskID].history = <<TaskStatusPending>>
            /\ tasks[unit[r].taskID].Result = Nil
            /\ tasks[unit[r].taskID].ErrorMessage = Nil
            /\ replies[r] = <<>>
            /\ sessions[r] = <<>>
            /\ unit[r].sid = 0

\* C20 witness: a run for a Telegram message, for which no adapter is
\* registered, has ended with its task pending
C20_Witness ==
    \E r \in Reqs :
        /\ unit[r].pc = "done"
        /\ unit[r].taskID # 0
        /\ unit[r].msg.Provider = ProviderTelegram
        /\ ProviderTelegram \notin DOMAIN providers
        /\ tasks[unit[r].taskID].Status = TaskStatusPending

\* ---- matchKeyword ---------------------------------------------------------
\* kw occurs in text as a contiguous run, letters compared without case
OccursIgnoringCase(kw, text) ==
    \E i \in 0..(Len(text) - Len(kw)) :
        \A j \in 1..Len(kw) : LowerChar(text[i + j]) = LowerChar(kw[j])

\* positions of the keyword list whose keyword occurs in the text
Matching(text, keywords) ==
    {i \in 1..Len(keywords) : OccursIgnoringCase(keywords[i].keyword, text)}

\* C18: matchKeyword returns the pair at the first position of the list whose
\* keyword occurs in the text, case ignored, with the keyword spelled as
\* configured and its mode; it returns the empty keyword and the empty mode
\* when the list is empty or no keyword occurs.
C18_FirstCaseInsensitiveMatch ==
    (input.fn = "matchKeyword" /\ output.done) =>
        LET m == Matching(input.text, input.keywords)
        IN IF m = {}
           THEN output.value = [keyword |-> <<>>, mode |-> ""]
           ELSE LET first == CHOOSE i \in m : \A j \in m : i <= j
                IN /\ output.value.keyword = input.keywords[first].keyword
                   /\ output.value.mode = input.keywords[first].mode

\* C18 witness: two keywords occur in the text, the first of them only when
\* case is ignored, and the first one was returned
C18_Witness ==
    /\ input.fn = "matchKeyword"
    /\ output.done
    /\ Cardinality(Matching(input.text, input.keywords)) = 2
    /\ input.keywords[1].keyword # input.keywords[2].keyword
    /\ input.keywords[1].keyword # <<>>
    /\ ~Contains(input.text, input.keywords[1].keyword)
    /\ output.value.keyword = input.keywords[1].keyword
    /\ output.value.mode = input.keywords[1].mode

\* ---- Registry -------------------------------------------------------------
\* goroutine g is inside the critical section of Register
Writing(g) == gor[g].pc \in {"write", "Unlock"}

\* goroutine g is inside the critical section of Get or All
Reading(g) == gor[g].pc \in {"read", "copy", "RUnlock"}

\* C15: All returns a copy.  A caller that adds, replaces or deletes an entry
\* of the map All returned leaves the registry's map as it was; the map a
\* caller holds is never the registry's own, and the registry always holds
\* the last adapter registered for each type, so that later Get and All calls
\* return what they would have returned without the mutation.
C15_AllReturnsCopy ==
    /\ [][\A g \in Goroutines :
             (gor[g].pc = "holding" /\ gor'[g].pc = "idle") => providers' = providers]_vars
    /\ [](\A g \in Goroutines : ~gor[g].aliased)
    /\ [](providers = registered.last)

\* C15 witness: a caller has altered the map All gave it, the registry holds
\* an adapter, and a later Get found it
C15_Witness ==
    \E g, h \in Goroutines :
        /\ gor[g].op = "All"
        /\ gor[g].pc = "idle"
        /\ \E k \in DOMAIN gor[g].out : gor[g].out[k].name = "mock"
        /\ providers # EmptyMap
        /\ gor[h].op = "Get"
        /\ gor[h].pc = "RUnlock"
        /\ gor[h].ok

\* C16: last writer wins per channel type.  The registry maps each type to at
\* most one adapter, of that type; only Register's write changes it, setting
\* the entry of p.Type() to p and leaving every other entry as it was; Get(t)
\* returns the adapter of the most recent Register for t, or (nil, false) when
\* none was registered.
C16_LastWriterWins ==
    /\ [](\A t \in DOMAIN providers : providers[t].typ = t)
    /\ [](DOMAIN providers = {a.typ : a \in registered.ever})
    /\ [][providers' # providers =>
             \E g \in Goroutines :
                 /\ gor[g].pc = "write"
                 /\ gor'[g].pc = "Unlock"
                 /\ DOMAIN providers' = DOMAIN providers \cup {gor[g].p.typ}
                 /\ providers'[gor[g].p.typ] = gor[g].p
                 /\ \A t \in DOMAIN providers \ {gor[g].p.typ} :
                        providers'[t] = providers[t]]_vars
    /\ [][\A g \in Goroutines :
             (gor[g].pc = "write" /\ gor'[g].pc = "Unlock") =>
                 providers'[gor[g].p.typ] = gor[g].p]_vars
    /\ [](\A g \in Goroutines :
             (gor[g].op = "Get" /\ gor[g].pc = "RUnlock") =>
                 IF gor[g].arg \in DOMAIN registered.last
                 THEN gor[g].ok /\ gor[g].ret = registered.last[gor[g].arg]
                 ELSE ~gor[g].ok /\ gor[g].ret = NoAdapter)

\* C16 witness: two adapters were registered for GitLab and Get returns the
\* one registered last
C16_Witness ==
    \E g \in Goroutines :
        /\ gor[g].op = "Get"
        /\ gor[g].pc = "RUnlock"
        /\ gor[g].arg = ProviderGitLab
        /\ gor[g].ok
        /\ gor[g].ret = registered.last[ProviderGitLab]
        /\ Cardinality({a \in registered.ever : a.typ = ProviderGitLab}) = 2

\* C17: under any interleaving of Register, Get and All, no two goroutines
\* are inside Register's critical section, none is inside Get's or All's
\* while one is inside Register's, and each holds the mutex it needs; so what
\* Get read is the registry's entry at the instant it returns (absent, or an
\* adapter registered for that type) and the map All built is the registry's
\* content at the instant it returns.
C17_RegistryCallsAtomic ==
    /\ mu.writer # 0 => mu.readers = {}
    /\ \A g \in Goroutines :
         /\ Writing(g) <=> mu.writer = g
         /\ Reading(g) <=> g \in mu.readers
         /\ Writing(g) => \A h \in Goroutines \ {g} : ~Writing(h) /\ ~Reading(h)
         /\ (gor[g].op = "Get" /\ gor[g].pc = "RUnlock") =>
               IF gor[g].arg \in DOMAIN providers
               THEN gor[g].ok /\ gor[g].ret = providers[gor[g].arg]
               ELSE ~gor[g].ok /\ gor[g].ret = NoAdapter
         /\ (gor[g].op = "Get" /\ gor[g].pc = "idle" /\ gor[g].ok) =>
               gor[g].ret \in registered.ever /\ gor[g].ret.typ = gor[g].arg
         /\ (gor[g].op = "All" /\ gor[g].pc = "copy") =>
               \A k \in DOMAIN gor[g].out :
                   k \in DOMAIN providers /\ gor[g].out[k] = providers[k]
         /\ (gor[g].op = "All" /\ gor[g].pc = "RUnlock") => gor[g].out = providers

\* C17 witness: All has copied a registry of one adapter or more and still
\* holds the read lock while another goroutine waits to register
C17_Witness ==
    \E g, h \in Goroutines :
        /\ g # h
        /\ gor[g].op = "All"
        /\ gor[g].pc = "RUnlock"
        /\ gor[g].out # EmptyMap
        /\ gor[h].pc = "Lock"

\* ---- calls of one run -------------------------------------------------------
\* positions of the replies of kind k that run r sent
RepliesOfKind(r, K) == {i \in DOMAIN replies[r] : replies[r][i].kind \in K}

\* C21: within one HandleMessage run every external call is attempted at most
\* once, whatever it returned: at most one CreateSession, one SendMessage, one
\* DeleteSession, one acknowledgment reply and one final reply, which is the
\* result reply or the error reply and never both.
C21_EachCallAtMostOnce ==
    \A r \in Reqs :
        /\ unit[r].attempts.create <= 1
        /\ unit[r].attempts.send <= 1
        /\ unit[r].attempts.delete <= 1
        /\ Cardinality(RepliesOfKind(r, {"ack"})) <= 1
        /\ Cardinality(RepliesOfKind(r, {"result", "error"})) <= 1

\* a finished run whose SendMessage and error reply both failed, each
\* attempted once, after the one acknowledgment
C21_Witness ==
    \E r \in Reqs :
        /\ unit[r].pc = "done"
        /\ unit[r].attempts = [create |-> 1, send |-> 1, delete |-> 1]
        /\ unit[r].err # NoError
        /\ Len(replies[r]) = 2
        /\ replies[r][1].kind = "ack"
        /\ replies[r][2].kind = "error"
        /\ unit[r].sendErr

\* ---- replies are best-effort ----------------------------------------------
\* where HandleMessage goes on after a reply, sent or not
AfterReply(pc) ==
    IF pc = "SendAck" THEN "UpdateProcessing" ELSE "done"

\* C22: a reply send, whether it succeeds or fails, changes no task and does
\* not change how the run goes on: after the acknowledgment, sent or not, the
\* run goes on to the processing update and the analysis; the result reply
\* and the error reply, sent or not, leave the task in the status it had.
C22_RepliesNeverAffectStatus ==
    [][\A r \in Reqs :
          (unit[r].pc \in {"SendAck", "SendError", "SendResult"}
             /\ unit'[r] # unit[r]) =>
                /\ tasks' = tasks
                /\ [unit'[r] EXCEPT !.sendErr = FALSE] =
                      [unit[r] EXCEPT !.pc = AfterReply(unit[r].pc), !.sendErr = FALSE]
                /\ Len(replies'[r]) = Len(replies[r]) + 1]_vars

\* a finished run whose result reply failed: the analysis ran and the task is
\* completed
C22_Witness ==
    \E r \in Reqs :
        /\ unit[r].pc = "done"
        /\ AnalysisSucceeded(r)
        /\ Kinds(replies[r]) = <<"ack", "result">>
        /\ unit[r].sendErr
        /\ tasks[unit[r].taskID].history =
              <<TaskStatusPending, TaskStatusProcessing, TaskStatusCompleted>>

\* ---- session cleanup --------------------------------------------------------
\* the DeleteSession attempts made for the session run r holds
Cleanups(ss, r) == ss[r][unit[r].sid].cleanup

\* C24: after SendMessage returns, DeleteSession is attempted under its own
\* deadline, taken from the background context and not from the caller's, so
\* also when the caller's context is done; whatever DeleteSession returns, the
\* text and the error of the analysis are what SendMessage returned, no task
\* changes, and the run goes on to the completed or the failed update by the
\* outcome of SendMessage alone.
C24_CleanupIndependentNotPropagated ==
    [][\A r \in Reqs :
          (unit[r].pc = "DeleteSession" /\ unit'[r] # unit[r]) =>
             /\ Len(Cleanups(sessions', r)) = Len(Cleanups(sessions, r)) + 1
             /\ LET c == Cleanups(sessions', r)[Len(Cleanups(sessions', r))]
                IN c.ctx.parent = "Background" /\ ~c.ctx.done
             /\ unit'[r].result = unit[r].result
             /\ unit'[r].err = unit[r].err
             /\ tasks' = tasks
             /\ unit'[r].pc = IF unit[r].err = NoError THEN "UpdateCompleted"
                              ELSE "UpdateFailed"]_vars

\* the caller's context ended during SendMessage, and DeleteSession was
\* attempted all the same, under the cleanup context; the task is failed with
\* the error of SendMessage
C24_Witness ==
    \E r \in Reqs :
        /\ unit[r].pc = "done"
        /\ unit[r].ctxDone
        /\ unit[r].sid # 0
        /\ sessions[r][unit[r].sid].cleanup = <<[ctx |-> CleanupCtx]>>
        /\ unit[r].err = Wrap("send message", <<"http request failed">>)
        /\ tasks[unit[r].taskID].Status = TaskStatusFailed

\* ---- SendMessage -------------------------------------------------------------
\* the texts of the text-typed parts, joined in the order of the response
RECURSIVE Joined(_)
Joined(ps) ==
    IF ps = <<>> THEN <<>>
    ELSE Joined(SubSeq(ps, 1, Len(ps) - 1)) \o ps[Len(ps)].text

TextOf(h) == Joined(SelectSeq(h.parts, LAMBDA p : p.type = "text"))

\* C23: SendMessage returns a failure when the HTTP status is not 200, when
\* the decoded response carries an error object, or when the text-typed parts
\* concatenate to the empty text; otherwise it returns exactly the texts of
\* the text-typed parts, concatenated in response order, other parts ignored.
C23_SendMessageResult ==
    output.done =>
        LET h == input.h
            v == output.value
            answered == h.transport
            decoded == answered /\ h.status = 200 /\ h.decodes
        IN /\ (answered /\ h.status # 200) => v.err # NoError
           /\ (decoded /\ h.error) => v.err # NoError
           /\ (decoded /\ TextOf(h) = <<>>) => v.err # NoError
           /\ (decoded /\ ~h.error /\ TextOf(h) # <<>>) =>
                 v = [text |-> TextOf(h), err |-> NoError]
           /\ v.err # NoError => v.text = <<>>

\* a 200 answer of two parts, a tool part and then a text part: the text part
\* alone is returned
C23_Witness ==
    /\ output.done
    /\ input.h.status = 200 /\ input.h.decodes /\ ~input.h.error
    /\ input.h.parts = <<[type |-> "tool", text |-> <<"x">>],
                         [type |-> "text", text |-> <<"s">>]>>
    /\ output.value = [text |-> <<"s">>, err |-> NoError]

\* ---- concurrent units --------------------------------------------------------
\* the file unit u has open for writing, "" when none
OpenForWriting(u) ==
    IF wcf[u].pc = "Write" THEN Files[wcf[u].key]
    ELSE IF wcf[u].pc = "WriteMerged" THEN ".opencode.json"
    ELSE ""

\* C25: concurrent units share no mutable state besides the Registry and the
\* persistence layer: no two units have a common resource open for writing,
\* and what a unit produces is the same under every interleaving -- here, a
\* unit that wrote .opencode.json from the settings and then merged the MCP
\* servers into it has written the settings' document plus mcpServers.
C25_UnitsShareNoMutableState ==
    /\ \A u, v \in Units :
         (u # v /\ OpenForWriting(u) # "") => OpenForWriting(u) # OpenForWriting(v)
    /\ \A u \in Units :
         (wcf[u].pc = "returned" /\ wcf[u].err = "" /\ wcf[u].wroteConfig
            /\ wcf[u].merged # {}) =>
               wcf[u].merged = Settings["opencode_config_json"] \cup {"mcpServers"}

\* ---- server routes ----------------------------------------------------------
\* delivery r was served (its request is recorded)
Served(r) == hpc[r] # "idle"

\* the run of delivery r has entered HandleMessage
Entered(r) == unit[r].pc \notin {"idle", "onMessage"}

\* C27: a webhook that arrives on the path of a channel config whose enabled
\* flag is false (and of no enabled one) is never processed, on a startup
\* route or on the /hook/ fallback: onMessage is not invoked, no task is
\* created, no reply is sent.
C27_DisabledConfigNeverProcessed ==
    \A r \in Reqs :
        (/\ Served(r)
         /\ req[r].owners # {}
         /\ \A o \in req[r].owners : ~o.Enabled) =>
            /\ hpc[r] # "go"
            /\ unit[r].calls = 0
            /\ unit[r].taskID = 0
            /\ replies[r] = <<>>

\* C30: the project id and the channel-config id HandleMessage looks the
\* keywords up with, and stores in the task, are those of a channel config
\* that held the path when the webhook arrived, and two requests on the same
\* path that differ only in their payload enter HandleMessage with the same
\* project id and the same channel-config id, on startup routes and on the
\* fallback alike.
C30_IdsAreThoseOfThePathsConfig ==
    /\ \A r \in Deliveries :
         (Entered(r) /\ unit[r].cfgOK) =>
             /\ \E o \in req[r].owners :
                  /\ unit[r].msg.ProviderCfgID = o.id
                  /\ unit[r].msg.ProjectID = o.ProjectID
             /\ unit[r].taskID # 0 =>
                  /\ tasks[unit[r].taskID].ProviderConfigID
                        \in {unit[r].msg.ProviderCfgID, NullID}
                  /\ tasks[unit[r].taskID].ProjectID
                        \in {unit[r].msg.ProjectID, NullProjectID}
    /\ \A r, q \in Deliveries :
         (Entered(r) /\ Entered(q)) =>
             /\ unit[r].msg.ProviderCfgID = unit[q].msg.ProviderCfgID
             /\ unit[r].msg.ProjectID = unit[q].msg.ProjectID

\* ---- repeated deliveries -----------------------------------------------------
\* positions of HandleMessage after CreateTask returned without error
AfterCreateTask ==
    {"RegistryGet", "SendAck", "UpdateProcessing", "WriteConfigFiles", "CreateSession",
     "SendMessage", "DeleteSession", "UpdateFailed", "SendError", "UpdateCompleted",
     "SendResult"}

\* C26: no delivery is deduplicated.  webhook_deliveries is never written or
\* read on the way of a webhook; every delivery of the same authentic,
\* keyword-matching webhook is answered 200 and invokes onMessage once, so n
\* deliveries invoke it n times; every run finds the keyword again, and every
\* run whose CreateTask returned has a task of its own, so n runs create n
\* tasks.
C26_EveryDeliveryProcessed ==
    /\ webhookDeliveries = {}
    /\ \A r \in Deliveries :
         /\ (Served(r) /\ req[r].route # "none") =>
               /\ resp[r].status = 200
               /\ hpc[r] = "returned" => unit[r].calls = 1
         /\ unit[r].kwOK => unit[r].kw # <<>>
         /\ unit[r].pc \in AfterCreateTask => unit[r].taskID # 0
         /\ \A q \in Deliveries :
              (q # r /\ unit[r].taskID # 0) => unit[q].taskID # unit[r].taskID
    /\ Cardinality(DOMAIN tasks) = Cardinality({r \in Deliveries : unit[r].taskID # 0})

\* the webhook was delivered MaxDeliveries times and the store holds one task
\* for each delivery, all with the same content
C26_Witness ==
    /\ \A r \in Deliveries : unit[r].pc = "done" /\ unit[r].calls = 1
    /\ Cardinality(DOMAIN tasks) = MaxDeliveries
    /\ \A i \in DOMAIN tasks :
         /\ tasks[i].MessageBody = input.rq.payload.note
         /\ tasks[i].ProviderConfigID = "c1"

\* ---- keywords of any text ----------------------------------------------------
\* C28: when the channel-config lookup and the keyword lookup succeed and the
\* body contains, ignoring case, a configured keyword (here: one that is not
\* empty), HandleMessage goes on to create a task, whatever other keywords
\* the project has -- the empty text among them -- and in whatever order.
C28_MatchingBodyCreatesTask ==
    \A r \in Reqs :
        (/\ unit[r].cfgOK
         /\ unit[r].kwOK
         /\ \E i \in DOMAIN unit[r].keywords :
               /\ unit[r].keywords[i].keyword # <<>>
               /\ OccursIgnoringCase(unit[r].keywords[i].keyword, unit[r].msg.Body)) =>
            /\ unit[r].kw # <<>>
            /\ unit[r].pc \in AfterCreateTask => unit[r].taskID # 0

\* ---- every task is settled ---------------------------------------------------
\* C29: once a run has ended, the task it created for a registered adapter is
\* completed or failed: none is left pending or processing.
C29_NoTaskLeftUnsettled ==
    \A r \in Reqs :
        (/\ unit[r].pc = "done"
         /\ unit[r].taskID # 0
         /\ RegistryGet(unit[r].msg.Provider)) =>
            tasks[unit[r].taskID].Status \in {TaskStatusCompleted, TaskStatusFailed}


=============================================================================
